---- MODULE Spec2Model ----
(***************************************************************************)
(* Model of the RAG PDF assistant backend (dvirvahav/rag-pdf-assistant).   *)
(*                                                                         *)
(* Several state machines share this module:                               *)
(*   Spec        the write path: upload endpoint, job tracker, queue,      *)
(*               one consumer running process_pdf_upload, vector index     *)
(*   SpecLive    the write path with the consumer's steps weakly fair      *)
(*   SpecTwo     the write path with two consumers                         *)
(*   SpecJobs    update_job_status as a GET and a SET, two callers         *)
(*   SpecChunk   chunk_text, stage by stage, over bounded input texts      *)
(*   SpecHF      header/footer suppression over bounded documents          *)
(*   SpecRefine  refine_question over bounded questions and outcomes       *)
(*   SpecAsk     process_question, call by call                            *)
(*   SpecExtract extract_text_from_pdf_smart, page by page                 *)
(*   SpecIndex   upsert_chunks over bounded filenames and chunk lists      *)
(*   SpecClean   clean_text over bounded raw texts                         *)
(*   SpecColumns detect_columns_and_reorder over bounded pages             *)
(* Strings are sequences of one-character strings.                         *)
(***************************************************************************)
EXTENDS Integers, Sequences, FiniteSets, TLC

VARIABLES
    jobs,        \* Redis job records: job id -> record
    queue,       \* RabbitMQ pdf_processing_queue: sequence of messages
    files,       \* uploads folder: filename -> content
    index,       \* Qdrant collection pdf_chunks: point id -> payload
    nextJob,     \* number of job ids handed out so far
    lastUpload,  \* the response to the last /upload request
    run,         \* per consumer: the process_pdf_upload run it is in / last finished
    ckIn,        \* chunk_text: arguments and configuration
    ckStage,     \* chunk_text: position in the function
    ckBlocks,    \* chunk_text: blocks / filtered_blocks
    ckChunks,    \* chunk_text: chunks
    ckRe,        \* chunk_text applied again to each returned chunk
    hfPatterns,  \* header_footer_filter.header_patterns / footer_patterns
    hfDoc,       \* the call made last and the pages handed to it
    hfOut,       \* what that call returned
    hfSettings,  \* settings.HEADER_FOOTER_DETECTION
    rqIn,        \* refine_question: question and the generation service's outcome
    rqOut,       \* refine_question: how the call ended
    askIn,       \* process_question: question, settings, collection at that time
    askPc,       \* process_question: position in the function
    ask,         \* process_question: locals, calls made, result or error
    exIn,        \* extract_text_from_pdf_smart: number of pages, settings
    exLog,       \* what native extraction and OCR did for each page processed
    exPages,     \* pages: the PageResult list
    exOut,       \* errors, total_text, and how the call ended
    indexed,     \* upsert_chunks: the chunks handed over for each filename
    upd,         \* update_job_status: per caller, its arguments and the job_data it read
    applied,     \* the redis SET applied last: who wrote, and what it replaced
    clIn,        \* clean_text: the raw text
    clOut,       \* clean_text: the text returned
    colIn,       \* detect_columns_and_reorder: page_chars, page width, settings
    colOut       \* detect_columns_and_reorder: the text returned

pipeVars == <<jobs, queue, files, index, nextJob, lastUpload, run>>
chunkVars == <<ckIn, ckStage, ckBlocks, ckChunks, ckRe>>
hfVars == <<hfPatterns, hfDoc, hfOut, hfSettings>>
rqVars == <<rqIn, rqOut>>
askVars == <<askIn, askPc, ask>>
exVars == <<exIn, exLog, exPages, exOut>>
idxVars == <<indexed>>
updVars == <<upd, applied>>
cleanVars == <<clIn, clOut>>
colVars == <<colIn, colOut>>
vars == <<jobs, queue, files, index, nextJob, lastUpload, run,
          ckIn, ckStage, ckBlocks, ckChunks, ckRe,
          hfPatterns, hfDoc, hfOut, hfSettings, rqIn, rqOut, askIn, askPc, ask,
          exIn, exLog, exPages, exOut, indexed, upd, applied, clIn, clOut, colIn, colOut>>

\* Python None, and a present value, for fields that are Optional
None == <<>>
Some(x) == <<x>>

-----------------------------------------------------------------------------
(* Python str operations on sequences of characters                        *)

Uppers == <<"A","B","C","D","E","F","G","H","I","J","K","L","M",
            "N","O","P","Q","R","S","T","U","V","W","X","Y","Z">>
Lowers == <<"a","b","c","d","e","f","g","h","i","j","k","l","m",
            "n","o","p","q","r","s","t","u","v","w","x","y","z">>
Digits == <<"0","1","2","3","4","5","6","7","8","9">>

Range(s) == {s[i] : i \in DOMAIN s}

IsUpperCh(c) == c \in Range(Uppers)
IsLowerCh(c) == c \in Range(Lowers)
IsAlphaCh(c) == IsUpperCh(c) \/ IsLowerCh(c)
IsDigitCh(c) == c \in Range(Digits)
IsSpaceCh(c) == c \in {" ", "\n", "\t"}
IsWordCh(c) == IsAlphaCh(c) \/ IsDigitCh(c) \/ c = "_"

LowerCh(c) == IF IsUpperCh(c) THEN Lowers[CHOOSE i \in DOMAIN Uppers : Uppers[i] = c] ELSE c

Lower(s) == [i \in DOMAIN s |-> LowerCh(s[i])]

Rep(c, n) == [i \in 1..n |-> c]

MaxOf(S) == CHOOSE x \in S : \A y \in S : y <= x
MinOf(S) == CHOOSE x \in S : \A y \in S : x <= y

\* s[a:b] with 0-based, already normalised bounds
Slice(s, a, b) == IF b <= a THEN <<>> ELSE SubSeq(s, a + 1, b)

Strip(s) ==
    LET keep == {i \in DOMAIN s : ~IsSpaceCh(s[i])}
    IN  IF keep = {} THEN <<>> ELSE SubSeq(s, MinOf(keep), MaxOf(keep))

\* needle in hay
Contains(hay, needle) ==
    \E i \in 0..(Len(hay) - Len(needle)) :
        \A k \in 1..Len(needle) : hay[i + k] = needle[k]

EndsWithStr(s, suffix) ==
    /\ Len(s) >= Len(suffix)
    /\ SubSeq(s, Len(s) - Len(suffix) + 1, Len(s)) = suffix

\* indices at which a whitespace-separated word starts
WordStarts(s) == {i \in DOMAIN s : ~IsSpaceCh(s[i]) /\ (i = 1 \/ IsSpaceCh(s[i - 1]))}

\* len(s.split())
WordCount(s) == Cardinality(WordStarts(s))

\* str(i) for a small non-negative integer
RECURSIVE IntStr(_)
IntStr(i) == IF i < 10 THEN <<Digits[i + 1]>> ELSE IntStr(i \div 10) \o <<Digits[(i % 10) + 1]>>

\* the elements of a set of integers in ascending order
RECURSIVE SortedSeq(_)
SortedSeq(S) == IF S = {} THEN <<>> ELSE <<MinOf(S)>> \o SortedSeq(S \ {MinOf(S)})

RECURSIVE JoinWith(_, _)
JoinWith(parts, sep) ==
    IF Len(parts) = 0 THEN <<>>
    ELSE IF Len(parts) = 1 THEN parts[1]
    ELSE parts[1] \o sep \o JoinWith(Tail(parts), sep)

-----------------------------------------------------------------------------
(* Write path: bounds and inputs                                           *)

MaxJobs == 2
Workers == {"w1"}

MAX_FILE_SIZE_MB == 10
max_file_size_bytes == MAX_FILE_SIZE_MB * 1024 * 1024

FnA == <<"a", ".", "p", "d", "f">>
FnB == <<"b", ".", "P", "D", "F">>
FnNone == <<>>
FnTxt == <<"a", ".", "t", "x", "t">>
FnDots == <<".", ".", "a", ".", "p", "d", "f">>
FnSlash == <<"a", "/", "b", ".", "p", "d", "f">>
FnBack == <<"a", "\\", "b", ".", "p", "d", "f">>
FnBare == <<".", "p", "d", "f">>

\* the /upload requests: two that pass validation, and one or two for each way to fail it
Requests == {[filename |-> FnA, size |-> 1],
             [filename |-> FnB, size |-> max_file_size_bytes],
             [filename |-> FnNone, size |-> 1],
             [filename |-> FnTxt, size |-> 1],
             [filename |-> FnBare, size |-> 1],
             [filename |-> FnA, size |-> 0],
             [filename |-> FnA, size |-> max_file_size_bytes + 1],
             [filename |-> FnDots, size |-> 1],
             [filename |-> FnSlash, size |-> 1],
             [filename |-> FnBack, size |-> 1]}

\* the documents that get uploaded, told apart by the chunks they yield
Contents == {"short", "long"}
NumChunks(content) == IF content = "short" THEN 1 ELSE 2

\* what is uploaded under a name: a.pdf with either content, b.PDF with the long one
UploadContents(filename) == IF filename = FnA THEN Contents ELSE {"long"}

UploadOutcomes == {"ok", "qdrant_down", "save_failed", "publish_failed"}

Steps == {"init_collection", "is_file_indexed", "extract_text_from_pdf", "clean_text",
          "chunk_text", "embed_chunks", "upsert_chunks"}
WriteCalls == {"extract_text_from_pdf", "embed_chunks", "upsert_chunks"}

-----------------------------------------------------------------------------
(* Job tracker                                                             *)

create_job(js, id, metadata) ==
    [j \in DOMAIN js \cup {id} |->
        IF j = id
        THEN [status |-> "queued", progress |-> 0, message |-> "Job queued",
              metadata |-> metadata, result |-> None, error |-> None]
        ELSE js[j]]

update_job_status(js, id, status, progress, message, result, error) ==
    IF id \notin DOMAIN js THEN js
    ELSE [js EXCEPT ![id] =
            [@ EXCEPT !.status = status,
                      !.progress = progress,
                      !.message = message,
                      !.result = IF result # None THEN result ELSE @,
                      !.error = IF error # None THEN error ELSE @]]

-----------------------------------------------------------------------------
(* Upload endpoint                                                         *)

LastIndexOf(s, c) == IF \E i \in DOMAIN s : s[i] = c
                     THEN MaxOf({i \in DOMAIN s : s[i] = c}) ELSE 0

\* os.path.splitext(p)[1]
splitext_ext(p) ==
    LET sepIndex == LastIndexOf(p, "/")
        dotIndex == LastIndexOf(p, ".")
    IN  IF dotIndex > sepIndex /\ \E k \in (sepIndex + 1)..(dotIndex - 1) : p[k] # "."
        THEN SubSeq(p, dotIndex, Len(p))
        ELSE <<>>

\* validate_pdf_file without the path-separator check
validate_pdf_file_unsanitized(filename, file_size) ==
    IF filename = <<>> THEN 400
    ELSE IF Lower(splitext_ext(filename)) # <<".", "p", "d", "f">> THEN 400
    ELSE IF file_size = 0 THEN 400
    ELSE IF file_size > max_file_size_bytes THEN 413
    ELSE 0

\* the HTTP status validate_pdf_file raises, or 0 when it returns;
\* lastUpload.job_id is 0 when the response carries no job id
validate_pdf_file(filename, file_size) ==
    IF filename = <<>> THEN 400
    ELSE IF Lower(splitext_ext(filename)) # <<".", "p", "d", "f">> THEN 400
    ELSE IF file_size = 0 THEN 400
    ELSE IF file_size > max_file_size_bytes THEN 413
    ELSE IF Contains(filename, <<".", ".">>) \/ Contains(filename, <<"/">>)
            \/ Contains(filename, <<"\\">>) THEN 400
    ELSE 0

Message(job_id, filename) == [job_id |-> job_id, filename |-> filename, filepath |-> filename]

upload_pdf(filename, file_size, content, outcome) ==
    LET rejected == validate_pdf_file(filename, file_size)
        job_id == nextJob + 1
    IN  IF rejected # 0
        THEN /\ lastUpload' = [status |-> rejected, job_id |-> 0]
             /\ UNCHANGED <<jobs, queue, files, nextJob>>
        ELSE IF outcome = "qdrant_down"
        THEN /\ lastUpload' = [status |-> 500, job_id |-> 0]
             /\ UNCHANGED <<jobs, queue, files, nextJob>>
        ELSE /\ nextJob < MaxJobs
             /\ nextJob' = job_id
             /\ jobs' = create_job(jobs, job_id, [filename |-> filename])
             /\ files' = IF outcome = "save_failed" THEN files
                         ELSE [f \in DOMAIN files \cup {filename} |->
                                 IF f = filename THEN content ELSE files[f]]
             /\ queue' = IF outcome = "ok" THEN Append(queue, Message(job_id, filename))
                         ELSE queue
             /\ lastUpload' = [status |-> IF outcome = "ok" THEN 200 ELSE 500,
                               job_id |-> IF outcome = "ok" THEN job_id ELSE 0]

Upload ==
    /\ \E req \in Requests :
          IF validate_pdf_file(req.filename, req.size) # 0
          THEN upload_pdf(req.filename, req.size, "none", "ok")
          ELSE \E content \in UploadContents(req.filename), outcome \in UploadOutcomes :
                  upload_pdf(req.filename, req.size, content, outcome)
    /\ UNCHANGED <<index, run>>

-----------------------------------------------------------------------------
(* Vector index                                                            *)

\* is_file_indexed matching the point text instead of the source
is_file_indexed_wrong_key(idx, filename) == \E id \in DOMAIN idx : idx[id].text = filename

\* len(points) > 0 for the scroll filtered on payload.source == filename
is_file_indexed(idx, filename) == \E id \in DOMAIN idx : idx[id].source = filename

\* a point id computed from the chunk index alone
point_id_from_chunk_index(filename, i) == IntStr(i)

\* the text the point id is the md5 of; the hash is taken as injective
point_id(filename, i) == filename \o <<"_">> \o IntStr(i)

\* the collection after client.upsert(points): a point replaces the one with its id
upsert_chunks(idx, vectors, chunks, filename) ==
    LET ids == {point_id(filename, i - 1) : i \in DOMAIN chunks}
    IN  [id \in DOMAIN idx \cup ids |->
            IF id \in ids
            THEN LET i == CHOOSE k \in DOMAIN chunks : point_id(filename, k - 1) = id
                 IN  [text |-> chunks[i], source |-> filename, chunk_id |-> i - 1,
                      vector |-> vectors[i]]
            ELSE idx[id]]

\* chunk_text(clean_text(extract_text_from_pdf(filepath))) of a saved file
ChunksOf(content) == [i \in 1..NumChunks(content) |-> <<content, i>>]

\* embed_chunks: one vector per chunk, in order
VectorsOf(chunks) == [i \in DOMAIN chunks |-> <<"vec", chunks[i]>>]

-----------------------------------------------------------------------------
(* Consumer: callback and process_pdf_upload, one action per call out      *)

\* a consumer between messages; calls and startIndexed record what the run did so far
\* and whether the file had points in the index when the run began
IdleRun == [pc |-> "idle", job |-> 0, filename |-> <<>>, calls |-> {},
            startIndexed |-> FALSE, content |-> "none", chunks |-> <<>>, vectors |-> <<>>]

Processing(js, job_id, progress, message) ==
    update_job_status(js, job_id, "processing", progress, message, None, None)

\* callback picks the head message and process_pdf_upload starts
Receive(w) ==
    /\ run[w].pc = "idle"
    /\ queue # <<>>
    /\ LET msg == Head(queue)
       IN  /\ queue' = Tail(queue)
           /\ jobs' = Processing(jobs, msg.job_id, 10, "Initializing PDF processing")
           /\ run' = [run EXCEPT ![w] =
                        [IdleRun EXCEPT !.pc = "init", !.job = msg.job_id,
                                        !.filename = msg.filename,
                                        !.startIndexed =
                                            \E id \in DOMAIN index :
                                                index[id].source = msg.filename]]
    /\ UNCHANGED <<files, index, nextJob, lastUpload>>

\* an except branch that only logs and re-raises
Raise_unreported(w, step) ==
    /\ queue' = <<Message(run[w].job, run[w].filename)>> \o queue
    /\ run' = [run EXCEPT ![w] = IdleRun]
    /\ UNCHANGED <<jobs, files, index, nextJob, lastUpload>>

\* the except branch of process_pdf_upload, then callback's basic_nack(requeue=True)
Raise(w, step) ==
    LET error_msg == <<"PDF processing failed", step>>
    IN  /\ jobs' = update_job_status(jobs, run[w].job, "failed", 0, error_msg, None, error_msg)
        /\ queue' = <<Message(run[w].job, run[w].filename)>> \o queue
        /\ run' = [run EXCEPT ![w] = IdleRun]
        /\ UNCHANGED <<files, index, nextJob, lastUpload>>

\* a call that returned: record it, report progress, move on
Proceed(w, step, next, progress, message) ==
    /\ jobs' = Processing(jobs, run[w].job, progress, message)
    /\ run' = [run EXCEPT ![w].pc = next, ![w].calls = @ \cup {step}]

InitCollection(w) ==
    /\ run[w].pc = "init"
    /\ \/ /\ Proceed(w, "init_collection", "check", 20, "Initializing collection")
          /\ UNCHANGED <<queue, files, index, nextJob, lastUpload>>
       \/ Raise(w, "init_collection")

\* the job completes and callback acknowledges the message
Complete(w, message, result) ==
    /\ jobs' = update_job_status(jobs, run[w].job, "completed", 100, message, Some(result), None)
    /\ run' = [run EXCEPT ![w] = IdleRun]

CheckIndexed(w) ==
    /\ run[w].pc = "check"
    /\ \/ /\ is_file_indexed(index, run[w].filename)
          /\ Complete(w, "File already indexed",
                      [status |-> "already_indexed", filename |-> run[w].filename])
          /\ UNCHANGED <<queue, files, index, nextJob, lastUpload>>
       \/ /\ ~is_file_indexed(index, run[w].filename)
          /\ Proceed(w, "is_file_indexed", "extract", 50, "Extracting text from PDF")
          /\ UNCHANGED <<queue, files, index, nextJob, lastUpload>>
       \/ Raise(w, "is_file_indexed")

Extract(w) ==
    /\ run[w].pc = "extract"
    /\ \/ /\ run[w].filename \in DOMAIN files
          /\ jobs' = Processing(jobs, run[w].job, 60, "Cleaning extracted text")
          /\ run' = [run EXCEPT ![w].pc = "clean", ![w].calls = @ \cup {"extract_text_from_pdf"},
                                ![w].content = files[run[w].filename]]
          /\ UNCHANGED <<queue, files, index, nextJob, lastUpload>>
       \/ Raise(w, "extract_text_from_pdf")

Clean(w) ==
    /\ run[w].pc = "clean"
    /\ \/ /\ Proceed(w, "clean_text", "chunk", 70, "Chunking text")
          /\ UNCHANGED <<queue, files, index, nextJob, lastUpload>>
       \/ Raise(w, "clean_text")

Chunk(w) ==
    /\ run[w].pc = "chunk"
    /\ \/ /\ jobs' = Processing(jobs, run[w].job, 80, "Generating embeddings")
          /\ run' = [run EXCEPT ![w].pc = "embed", ![w].calls = @ \cup {"chunk_text"},
                                ![w].chunks = ChunksOf(run[w].content)]
          /\ UNCHANGED <<queue, files, index, nextJob, lastUpload>>
       \/ Raise(w, "chunk_text")

Embed(w) ==
    /\ run[w].pc = "embed"
    /\ \/ /\ run[w].chunks # <<>>
          /\ jobs' = Processing(jobs, run[w].job, 90, "Storing vectors in database")
          /\ run' = [run EXCEPT ![w].pc = "upsert", ![w].calls = @ \cup {"embed_chunks"},
                                ![w].vectors = VectorsOf(run[w].chunks)]
          /\ UNCHANGED <<queue, files, index, nextJob, lastUpload>>
       \/ Raise(w, "embed_chunks")

Upsert(w) ==
    /\ run[w].pc = "upsert"
    /\ \/ /\ run[w].vectors # <<>> /\ run[w].chunks # <<>>
          /\ Len(run[w].vectors) = Len(run[w].chunks)
          /\ index' = upsert_chunks(index, run[w].vectors, run[w].chunks, run[w].filename)
          /\ Complete(w, "PDF processing completed successfully",
                      [status |-> "indexed", filename |-> run[w].filename,
                       chunks_count |-> Len(run[w].chunks)])
          /\ UNCHANGED <<queue, files, nextJob, lastUpload>>
       \/ Raise(w, "upsert_chunks")

-----------------------------------------------------------------------------
(* The write path as a state machine                                       *)

PipeInit ==
    /\ jobs = << >>
    /\ queue = << >>
    /\ files = << >>
    /\ index = << >>
    /\ nextJob = 0
    /\ lastUpload = [status |-> 0, job_id |-> 0]
    /\ run = [w \in Workers |-> IdleRun]

-----------------------------------------------------------------------------
(* Chunker: chunking.py                                                    *)

LongBlockLen == 2000
GroupLen == 1000
MinChunkLen == 50

NewlineAt(s) == {i \in DOMAIN s : s[i] = "\n"}
NonSpaceAt(s) == {i \in DOMAIN s : ~IsSpaceCh(s[i])}

\* the matches of \n\s*\n in s, as <<first, last>> positions: a whitespace run
\* holding two or more newlines matches from its first newline to its last
BlankLineSpans(s) ==
    LET nl == NewlineAt(s)
        ns == NonSpaceAt(s)
        lo(i) == MaxOf({k \in ns : k < i} \cup {0}) + 1
        hi(i) == MinOf({k \in ns : k > i} \cup {Len(s) + 1}) - 1
        inRun(i) == {k \in nl : lo(i) <= k /\ k <= hi(i)}
    IN  {<<MinOf(inRun(i)), MaxOf(inRun(i))>> : i \in {k \in nl : Cardinality(inRun(k)) >= 2}}

SpanSeq(spans) ==
    LET starts == SortedSeq({sp[1] : sp \in spans})
    IN  [i \in DOMAIN starts |-> CHOOSE sp \in spans : sp[1] = starts[i]]

RECURSIVE PiecesFrom(_, _, _)
PiecesFrom(s, pos, spanSeq) ==
    IF spanSeq = <<>> THEN <<Slice(s, pos, Len(s))>>
    ELSE <<Slice(s, pos, spanSeq[1][1] - 1)>> \o PiecesFrom(s, spanSeq[1][2], Tail(spanSeq))

\* re.split(pattern, s) given the pattern's matches
SplitAtSpans(s, spans) == PiecesFrom(s, 0, SpanSeq(spans))

\* s.split('\n') and re.split(r'\n', s)
SplitLines(s) == SplitAtSpans(s, {<<i, i>> : i \in NewlineAt(s)})

\* the loop over sub_blocks of a very long block
RECURSIVE GroupLines(_, _, _)
GroupLines(lines, current_group, refined) ==
    IF lines = <<>>
    THEN IF current_group # <<>> THEN Append(refined, JoinWith(current_group, <<" ">>))
         ELSE refined
    ELSE LET line == Head(lines)
             grown == Append(current_group, line)
         IN  IF Strip(line) # <<>>
             THEN IF Len(JoinWith(grown, <<" ">>)) > GroupLen
                  THEN GroupLines(Tail(lines), <<>>, Append(refined, JoinWith(grown, <<" ">>)))
                  ELSE GroupLines(Tail(lines), grown, refined)
             ELSE IF current_group # <<>>
             THEN GroupLines(Tail(lines), <<>>,
                             Append(refined, JoinWith(current_group, <<" ">>)))
             ELSE GroupLines(Tail(lines), current_group, refined)

RECURSIVE RefineBlocks(_)
RefineBlocks(blocks) ==
    IF blocks = <<>> THEN <<>>
    ELSE (IF Len(Head(blocks)) > LongBlockLen
          THEN GroupLines(SplitLines(Head(blocks)), <<>>, <<>>)
          ELSE <<Strip(Head(blocks))>>) \o RefineBlocks(Tail(blocks))

_split_into_logical_blocks(text) ==
    SelectSeq(RefineBlocks(SplitAtSpans(text, BlankLineSpans(text))),
              LAMBDA block : Strip(block) # <<>>)

CurrencyChars == {"$", ","}
BulletChars == {"-", "*"}

\* re.search(r'[$,...]\s*\d', block)
HasCurrencyValue(block) ==
    \E i \in DOMAIN block, j \in DOMAIN block :
        /\ i < j /\ block[i] \in CurrencyChars /\ IsDigitCh(block[j])
        /\ \A k \in (i + 1)..(j - 1) : IsSpaceCh(block[k])

\* re.search(r'\d+(\.\d+)?%', block)
HasPercentage(block) ==
    \E i \in 1..(Len(block) - 1) : IsDigitCh(block[i]) /\ block[i + 1] = "%"

\* re.match(r'^\s*[\[\(]\d+[\]\)]\s*$', block.strip())
IsFootnoteMarker(block) ==
    LET b == Strip(block)
    IN  /\ Len(b) >= 3
        /\ b[1] \in {"[", "("}
        /\ b[Len(b)] \in {"]", ")"}
        /\ \A k \in 2..(Len(b) - 1) : IsDigitCh(b[k])

\* position of the first non-whitespace character, Len + 1 if there is none
FirstNonSpace(s) == MinOf(NonSpaceAt(s) \cup {Len(s) + 1})

\* re.match(r'^\s*[bullets]\s', block)
StartsWithBullet(block) ==
    LET i == FirstNonSpace(block)
    IN  i < Len(block) /\ block[i] \in BulletChars /\ IsSpaceCh(block[i + 1])

\* re.match(r'^\s*\d+[\.\)]\s', block)
StartsWithNumber(block) ==
    LET i == FirstNonSpace(block)
    IN  \E j \in DOMAIN block :
            /\ i < j /\ j < Len(block)
            /\ \A k \in i..(j - 1) : IsDigitCh(block[k])
            /\ block[j] \in {".", ")"}
            /\ IsSpaceCh(block[j + 1])

\* str.isupper()
IsUpperStr(s) ==
    /\ \E i \in DOMAIN s : IsUpperCh(s[i])
    /\ \A i \in DOMAIN s : ~IsLowerCh(s[i])

_is_important_short_block(block, cfg) ==
    IF Strip(block) = <<>> THEN FALSE
    ELSE IF cfg.PRESERVE_NUMERIC_VALUES /\ (HasCurrencyValue(block) \/ HasPercentage(block))
    THEN TRUE
    ELSE IF IsFootnoteMarker(block) THEN TRUE
    ELSE IF StartsWithBullet(block) \/ StartsWithNumber(block) THEN TRUE
    ELSE IF WordCount(block) <= 5 /\ IsUpperStr(block) THEN TRUE
    ELSE /\ 2 <= WordCount(block) /\ WordCount(block) <= 4
         /\ block # <<>> /\ block[Len(block)] \in {".", "!", "?", ":"}

KeepBlock(block, cfg) ==
    \/ WordCount(block) >= cfg.MIN_TEXT_BLOCK_WORDS
    \/ _is_important_short_block(block, cfg)

_filter_blocks(blocks, cfg) == SelectSeq(blocks, LAMBDA block : KeepBlock(block, cfg))

\* text.rfind(' ') as a 0-based offset, -1 when there is no space
RFindSpace(s) == IF \E i \in DOMAIN s : s[i] = " "
                 THEN MaxOf({i \in DOMAIN s : s[i] = " "}) - 1 ELSE 0 - 1

_get_overlap_text(text, overlap_chars) ==
    IF Len(text) <= overlap_chars THEN text
    ELSE LET overlap_text == IF overlap_chars = 0 THEN text      \* text[-0:] is text[0:]
                             ELSE SubSeq(text, Len(text) - overlap_chars + 1, Len(text))
             last_space == RFindSpace(overlap_text)
         IN  IF last_space > overlap_chars \div 2
             THEN Slice(overlap_text, 0, last_space)
             ELSE overlap_text

\* the loop of _create_chunks_from_blocks; current_size is len(current_chunk) throughout
RECURSIVE ChunkLoop(_, _, _, _, _)
ChunkLoop(blocks, chunks, current_chunk, chunk_size, overlap) ==
    IF blocks = <<>>
    THEN IF Strip(current_chunk) # <<>> THEN Append(chunks, Strip(current_chunk)) ELSE chunks
    ELSE LET block == Head(blocks)
         IN  IF 2 * (Len(current_chunk) + Len(block)) > 3 * chunk_size /\ current_chunk # <<>>
             THEN ChunkLoop(Tail(blocks), Append(chunks, Strip(current_chunk)),
                            _get_overlap_text(current_chunk, overlap) \o <<" ">> \o block,
                            chunk_size, overlap)
             ELSE ChunkLoop(Tail(blocks), chunks,
                            IF current_chunk # <<>> THEN current_chunk \o <<" ">> \o block
                            ELSE block,
                            chunk_size, overlap)

_create_chunks_from_blocks(blocks, chunk_size, overlap) ==
    IF blocks = <<>> THEN <<>> ELSE ChunkLoop(blocks, <<>>, <<>>, chunk_size, overlap)

AlphaCount(s) == Cardinality({i \in DOMAIN s : IsAlphaCh(s[i])})

\* the length check alone, without the alphabetic ratio
_is_chunk_quality_length_only(chunk) ==
    IF Strip(chunk) = <<>> THEN FALSE
    ELSE Len(Strip(chunk)) >= MinChunkLen

_is_chunk_quality(chunk) ==
    IF Strip(chunk) = <<>> THEN FALSE
    ELSE IF Len(Strip(chunk)) < MinChunkLen THEN FALSE
    ELSE IF 10 * AlphaCount(chunk) < 3 * Len(chunk) THEN FALSE
    ELSE TRUE

chunk_text(text, chunk_size, overlap, cfg) ==
    IF Strip(text) = <<>> THEN <<>>
    ELSE SelectSeq(_create_chunks_from_blocks(
                       _filter_blocks(_split_into_logical_blocks(text), cfg),
                       chunk_size, overlap),
                   _is_chunk_quality)

-----------------------------------------------------------------------------
(* Header/footer filter: layout.py, and its use in extraction.py           *)

\* the literal parts of the common patterns, lowered for matching without case
\* the copyright sign, one character
CopyrightSign == "(c)"

PAGE_WORD == <<"p", "a", "g", "e", " ">>
CONFIDENTIAL_WORD == <<"c", "o", "n", "f", "i", "d", "e", "n", "t", "i", "a", "l">>
DRAFT_WORD == <<"d", "r", "a", "f", "t">>

\* lines[:n] and lines[-n:]
FirstN(s, n) == SubSeq(s, 1, MinOf({n, Len(s)}))
LastN(s, n) == SubSeq(s, MaxOf({Len(s) - n, 0}) + 1, Len(s))

\* the matches of \b\d+\b in text, as <<first, last>> positions: the runs of
\* digits that no word character touches
NumberSpans(text) ==
    {sp \in (DOMAIN text) \X (DOMAIN text) :
        /\ sp[1] <= sp[2]
        /\ \A k \in sp[1]..sp[2] : IsDigitCh(text[k])
        /\ (sp[1] = 1 \/ ~IsWordCh(text[sp[1] - 1]))
        /\ (sp[2] = Len(text) \/ ~IsWordCh(text[sp[2] + 1]))}

\* positions where word occurs in text, ignoring case
OccurrencesOf(text, word) ==
    {i \in 1..(Len(text) - Len(word) + 1) : Lower(SubSeq(text, i, i + Len(word) - 1)) = word}

\* the last position of the run of digits that starts at position i
DigitRunEnd(text, i) == MaxOf({j \in i..Len(text) : \A k \in i..j : IsDigitCh(text[k])})

\* re.search(r'Page \d+', text, re.IGNORECASE): its group, in a list, or no element
PageMatch(text) ==
    LET word == PAGE_WORD
        at == {i \in OccurrencesOf(text, word) :
                  i + Len(word) <= Len(text) /\ IsDigitCh(text[i + Len(word)])}
    IN  IF at = {} THEN <<>>
        ELSE <<SubSeq(text, MinOf(at), DigitRunEnd(text, MinOf(at) + Len(word)))>>

\* re.search(r'^\d+$', text): $ also matches before one trailing newline
StandaloneNumberMatch(text) ==
    LET body == IF text # <<>> /\ text[Len(text)] = "\n"
                THEN SubSeq(text, 1, Len(text) - 1) ELSE text
    IN  IF body # <<>> /\ \A k \in DOMAIN body : IsDigitCh(body[k]) THEN <<body>> ELSE <<>>

\* re.search of the copyright sign, a space and four digits
CopyrightMatch(text) ==
    LET at == {i \in 1..(Len(text) - 5) :
                  /\ text[i] = CopyrightSign /\ text[i + 1] = " "
                  /\ \A k \in (i + 2)..(i + 5) : IsDigitCh(text[k])}
    IN  IF at = {} THEN <<>> ELSE <<SubSeq(text, MinOf(at), MinOf(at) + 5)>>

\* re.search(word, text, re.IGNORECASE) for a literal word
PhraseMatch(text, word) ==
    LET at == OccurrencesOf(text, word)
    IN  IF at = {} THEN <<>> ELSE <<SubSeq(text, MinOf(at), MinOf(at) + Len(word) - 1)>>

_extract_potential_patterns(text) ==
    LET nums == SpanSeq(NumberSpans(text))
    IN  [k \in DOMAIN nums |-> <<" ">> \o SubSeq(text, nums[k][1], nums[k][2]) \o <<" ">>]
            \o PageMatch(text) \o StandaloneNumberMatch(text) \o CopyrightMatch(text)
            \o PhraseMatch(text, CONFIDENTIAL_WORD) \o PhraseMatch(text, DRAFT_WORD)

\* a pattern is counted once for each time a sample yields it
_find_repeating_patterns(text_samples) ==
    LET found == [k \in DOMAIN text_samples |-> _extract_potential_patterns(text_samples[k])]
        pattern_counts(p) ==
            Cardinality({km \in UNION {{<<k, m>> : m \in DOMAIN found[k]} : k \in DOMAIN found} :
                            found[km[1]][km[2]] = p})
    IN  {p \in UNION {Range(found[k]) : k \in DOMAIN found} : pattern_counts(p) >= 3}

PageSample(lines) == Strip(JoinWith(lines, <<" ">>))

\* with fewer than 3 pages the patterns of the document before stay in place
_detect_repeating_patterns(pages, patterns) ==
    IF Len(pages) < 3 THEN patterns
    ELSE [header |-> _find_repeating_patterns(
                         [i \in DOMAIN pages |-> PageSample(FirstN(SplitLines(pages[i]), 3))]),
          footer |-> _find_repeating_patterns(
                         [i \in DOMAIN pages |-> PageSample(LastN(SplitLines(pages[i]), 3))])]

ShouldRemove(line_text, patterns) ==
    \/ \E pattern \in patterns : Contains(Lower(line_text), Strip(Lower(pattern)))
    \/ /\ WordCount(line_text) <= 2
       /\ line_text # <<>>
       /\ \A k \in DOMAIN line_text : IsDigitCh(line_text[k])

\* the loop of _remove_pattern_lines, without the fallback to the lines it got
_remove_pattern_lines_no_fallback(lines, patterns) ==
    IF patterns = {} THEN lines
    ELSE SelectSeq(lines, LAMBDA line :
                      Strip(line) # <<>> /\ ~ShouldRemove(Strip(line), patterns))

_remove_pattern_lines(lines, patterns) ==
    IF patterns = {} THEN lines
    ELSE LET filtered == SelectSeq(lines, LAMBDA line :
                             Strip(line) # <<>> /\ ~ShouldRemove(Strip(line), patterns))
         IN  IF filtered # <<>> THEN filtered ELSE lines

\* filtered_lines of _filter_single_page for a page of 3 or more lines
FilteredLines(lines, patterns) ==
    LET header_filtered == _remove_pattern_lines(FirstN(lines, 5), patterns.header)
        footer_start == MaxOf({Len(header_filtered) - 5, 0})
    IN  _remove_pattern_lines(SubSeq(header_filtered, footer_start + 1, Len(header_filtered)),
                              patterns.footer)

_filter_single_page(page_text, patterns) ==
    LET lines == SplitLines(page_text)
    IN  IF Len(lines) < 3 THEN page_text
        ELSE JoinWith(FilteredLines(lines, patterns), <<"\n">>)

\* the returned pages and the filter's patterns after the call
filter_headers_footers(pages, patterns, settings) ==
    IF ~settings.HEADER_FOOTER_DETECTION \/ Len(pages) < 2
    THEN [pages |-> pages, patterns |-> patterns]
    ELSE LET detected == _detect_repeating_patterns(pages, patterns)
         IN  [pages |-> [i \in DOMAIN pages |-> _filter_single_page(pages[i], detected)],
              patterns |-> detected]

-----------------------------------------------------------------------------
(* Write path: properties                                                  *)

\* the call process_pdf_upload is making at each position
StepAt(pc) ==
    CASE pc = "init" -> "init_collection"
      [] pc = "check" -> "is_file_indexed"
      [] pc = "extract" -> "extract_text_from_pdf"
      [] pc = "clean" -> "clean_text"
      [] pc = "chunk" -> "chunk_text"
      [] pc = "embed" -> "embed_chunks"
      [] OTHER -> "upsert_chunks"

RunEnds(w) == run[w].pc # "idle" /\ run'[w].pc = "idle"

AlreadyIndexed(f) == Some([status |-> "already_indexed", filename |-> f])

\* C1 as stated: the existence check precedes every extraction, embedding and
\* upsert call of a run, and a run for a file that already had points when it
\* began makes none of these calls, leaves the index unchanged and finishes
\* with result {status: already_indexed, filename: f}.
C1_AsStated ==
    [][\A w \in Workers :
         /\ run'[w].calls \cap WriteCalls # {} => "is_file_indexed" \in run'[w].calls
         /\ run[w].startIndexed =>
              /\ run'[w].calls \cap WriteCalls = {}
              /\ index' = index
              /\ RunEnds(w) =>
                   /\ jobs'[run[w].job].status = "completed"
                   /\ jobs'[run[w].job].result = AlreadyIndexed(run[w].filename)]_vars

\* C1 amended: as above, except that such a run finishes either with result
\* already_indexed or, when init_collection or the existence check itself
\* raises, as failed with that error; in both cases no extraction, embedding or
\* upsert call is made and the index is unchanged.
C1_ShortCircuit ==
    [][\A w \in Workers :
         /\ run'[w].calls \cap WriteCalls # {} => "is_file_indexed" \in run'[w].calls
         /\ run[w].startIndexed =>
              /\ run'[w].calls \cap WriteCalls = {}
              /\ index' = index
              /\ RunEnds(w) =>
                   \/ /\ jobs'[run[w].job].status = "completed"
                      /\ jobs'[run[w].job].result = AlreadyIndexed(run[w].filename)
                   \/ /\ jobs'[run[w].job].status = "failed"
                      /\ run[w].pc \in {"init", "check"}
                      /\ jobs'[run[w].job].error
                           = <<"PDF processing failed", StepAt(run[w].pc)>>]_vars

\* a second job for an indexed file has completed as already_indexed
C1_Witness ==
    \E j \in DOMAIN jobs :
        /\ jobs[j].status = "completed"
        /\ jobs[j].result = AlreadyIndexed(jobs[j].metadata.filename)
        /\ \E k \in DOMAIN jobs :
              /\ k # j /\ jobs[k].status = "completed"
              /\ jobs[k].metadata.filename = jobs[j].metadata.filename
              /\ jobs[k].result # jobs[j].result

\* C2: a run of process_pdf_upload that ends by an exception, at whichever of the
\* seven calls, leaves the job failed with that call's error message stored, and
\* a job is in status processing only while a consumer is running it.
C2_FailedNotStuck ==
    /\ [](\A j \in DOMAIN jobs :
            jobs[j].status = "processing" =>
                \E w \in Workers : run[w].pc # "idle" /\ run[w].job = j)
    /\ [][\A w \in Workers :
            RunEnds(w) =>
                LET job == jobs'[run[w].job]
                    requeued == queue' # <<>> /\ Head(queue').job_id = run[w].job
                IN  /\ job.status \in {"completed", "failed"}
                    /\ job.status = "completed" <=> ~requeued
                    /\ job.status = "failed" =>
                         /\ job.error = <<"PDF processing failed", StepAt(run[w].pc)>>
                         /\ job.message = job.error
                         /\ job.progress = 0]_vars

\* a job failed at the upsert, was requeued, and no consumer holds it
C2_Witness ==
    \E j \in DOMAIN jobs :
        /\ jobs[j].status = "failed"
        /\ jobs[j].error = <<"PDF processing failed", "upsert_chunks">>
        /\ queue # <<>> /\ Head(queue).job_id = j
        /\ \A w \in Workers : run[w].pc = "idle"

\* the validation failures the upload contract lists
InvalidUpload(req) ==
    \/ req.filename = <<>>
    \/ ~EndsWithStr(Lower(req.filename), <<".", "p", "d", "f">>)
    \/ req.size = 0
    \/ req.size > MAX_FILE_SIZE_MB * 1024 * 1024
    \/ Contains(req.filename, <<".", ".">>)
    \/ Contains(req.filename, <<"/">>)
    \/ Contains(req.filename, <<"\\">>)

\* C3: every upload that fails validation (extension, missing filename, zero
\* size, size above the limit, '..', '/' or '\' in the filename) is answered 400
\* or 413, and an upload answered 400 or 413 creates no job record, saves no file
\* and publishes no message.
C3_RejectedNeverEnters ==
    /\ [](\A req \in Requests :
            InvalidUpload(req) => validate_pdf_file(req.filename, req.size) \in {400, 413})
    /\ [][lastUpload' # lastUpload /\ lastUpload'.status \in {400, 413} =>
            UNCHANGED <<jobs, files, queue, nextJob>>]_vars

\* an oversized upload was rejected after another upload had been accepted
C3_Witness == lastUpload.status = 413 /\ nextJob = 1 /\ Len(queue) = 1

-----------------------------------------------------------------------------
(* chunk_text as a state machine over bounded inputs                       *)

MaxPieces == 2

Words(c, width, n) == JoinWith([i \in 1..n |-> Rep(c, width)], <<" ">>)

PSentence == Words("a", 10, 4) \o <<" ">> \o Rep("e", 9) \o <<".">>
PCaps == Rep("A", 45)
PFoot == <<"[", "1", "]">>
PPct == <<"5", "0", "%">>
PTiny == <<"a", "b">>
PShortSent == <<"a", "b", " ", "c", "d", ".">>
PDigits == Words("1", 10, 5)
PBullet == <<"-", " ", "a", "b">>
PHuge == JoinWith([i \in 1..3 |-> Words("a", 99, 7)], <<"\n">>)

Pieces == {PSentence, PCaps, PPct, PTiny, PDigits}
Separators == {<<"\n", "\n">>, <<"\n">>}

\* texts that are not a plain sequence of pieces: blank ones, a blank line holding
\* spaces, the short blocks kept as important, and blocks above 2000 characters
SpecialTexts ==
    {<<>>, <<" ", "\n">>,
     PSentence \o <<" ", "\n", " ", "\n">> \o PFoot,
     PFoot \o <<"\n", "\n">> \o PShortSent \o <<"\n", "\n">> \o PBullet
         \o <<"\n", "\n">> \o PSentence,
     PHuge,
     PHuge \o <<"\n", "\n">> \o PSentence,
     PBullet \o <<"\n", "\n">> \o PHuge \o <<"\n", "-", " ">>}

RECURSIVE TextsOf(_)
TextsOf(n) == IF n = 1 THEN Pieces
              ELSE {t \o sep \o piece : t \in TextsOf(n - 1), sep \in Separators, piece \in Pieces}

Texts == SpecialTexts \cup UNION {TextsOf(n) : n \in 1..MaxPieces}

ChunkParams == {[chunk_size |-> 60, overlap |-> 10], [chunk_size |-> 800, overlap |-> 100]}

\* settings.MIN_TEXT_BLOCK_WORDS and settings.PRESERVE_NUMERIC_VALUES
ChunkSettings == [MIN_TEXT_BLOCK_WORDS : {2, 3}, PRESERVE_NUMERIC_VALUES : BOOLEAN]

ChunkParked ==
    /\ ckIn = [text |-> <<>>, chunk_size |-> 0, overlap |-> 0,
               cfg |-> [MIN_TEXT_BLOCK_WORDS |-> 0, PRESERVE_NUMERIC_VALUES |-> FALSE]]
    /\ ckStage = "parked"
    /\ ckBlocks = <<>>
    /\ ckChunks = <<>>
    /\ ckRe = <<>>

ChunkInit ==
    /\ \E text \in Texts, params \in ChunkParams, cfg \in ChunkSettings :
          ckIn = [text |-> text, chunk_size |-> params.chunk_size,
                  overlap |-> params.overlap, cfg |-> cfg]
    /\ ckStage = "called"
    /\ ckBlocks = <<>>
    /\ ckChunks = <<>>
    /\ ckRe = <<>>

CkSplit ==
    /\ ckStage = "called"
    /\ IF Strip(ckIn.text) = <<>>
       THEN ckStage' = "returned" /\ ckBlocks' = <<>>
       ELSE ckStage' = "split" /\ ckBlocks' = _split_into_logical_blocks(ckIn.text)
    /\ UNCHANGED <<ckIn, ckChunks, ckRe>>

CkFilter ==
    /\ ckStage = "split"
    /\ ckStage' = "filtered"
    /\ ckBlocks' = _filter_blocks(ckBlocks, ckIn.cfg)
    /\ UNCHANGED <<ckIn, ckChunks, ckRe>>

CkCreate ==
    /\ ckStage = "filtered"
    /\ ckStage' = "chunked"
    /\ ckChunks' = _create_chunks_from_blocks(ckBlocks, ckIn.chunk_size, ckIn.overlap)
    /\ UNCHANGED <<ckIn, ckBlocks, ckRe>>

CkQuality ==
    /\ ckStage = "chunked"
    /\ ckStage' = "returned"
    /\ ckChunks' = SelectSeq(ckChunks, _is_chunk_quality)
    /\ UNCHANGED <<ckIn, ckBlocks, ckRe>>

\* every returned chunk is handed to chunk_text again, same arguments
CkRechunk ==
    /\ ckStage = "returned"
    /\ ckStage' = "rechunked"
    /\ ckRe' = [i \in DOMAIN ckChunks |->
                  chunk_text(ckChunks[i], ckIn.chunk_size, ckIn.overlap, ckIn.cfg)]
    /\ UNCHANGED <<ckIn, ckBlocks, ckChunks>>

-----------------------------------------------------------------------------
(* Chunker: properties                                                     *)

Returned == ckStage \in {"returned", "rechunked"}

\* C4: every chunk chunk_text returns has at least 50 characters and at least
\* 30% alphabetic characters (10 * alphabetic count >= 3 * length).
C4_QualityFloor ==
    Returned =>
        \A i \in DOMAIN ckChunks :
            /\ Len(ckChunks[i]) >= 50
            /\ 10 * AlphaCount(ckChunks[i]) >= 3 * Len(ckChunks[i])

\* chunk_text returned a chunk and dropped another one at the quality check
C4_Witness ==
    /\ ckStage = "returned"
    /\ ckChunks # <<>>
    /\ Len(ckChunks)
         < Len(_create_chunks_from_blocks(ckBlocks, ckIn.chunk_size, ckIn.overlap))

\* C5 as stated: no returned chunk is longer than 1.5 * chunk_size + overlap + 1.
C5_AsStated ==
    Returned =>
        \A i \in DOMAIN ckChunks :
            2 * Len(ckChunks[i]) <= 3 * ckIn.chunk_size + 2 * ckIn.overlap + 2

\* C6 as stated: chunk_text applied to a returned chunk no longer than chunk_size
\* returns the one-element list holding that chunk.
C6_AsStated ==
    ckStage = "rechunked" =>
        \A i \in DOMAIN ckChunks :
            Len(ckChunks[i]) <= ckIn.chunk_size => ckRe[i] = <<ckChunks[i]>>

-----------------------------------------------------------------------------
(* The header/footer filter as a state machine over bounded documents      *)

MaxPages == 3

LBody == <<"B", "o", "d", "y">>
LMore == <<"M", "o", "r", "e">>
LDraft == <<"D", "r", "a", "f", "t">>
LRev == <<"R", "e", "v", " ", "7">>
LPage(i) == <<"P", "a", "g", "e", " ">> \o IntStr(i)

\* the page templates: page i of a document that follows template t
HFTemplates == {"footer", "long", "short", "draft", "rev", "blank", "const", "tail", "empty",
                "eleven", "tally"}

LMid == <<"M", "i", "d">>

TemplateLines(t, i) ==
    CASE t = "footer" -> <<LBody, LMore, LPage(i)>>
      [] t = "long" -> <<LBody, LMore, LMore, LMore, LMore, LBody, LPage(i)>>
      [] t = "short" -> <<LBody, LPage(i)>>
      [] t = "draft" -> <<LDraft, <<"1">>, <<"2">>>>
      [] t = "rev" -> <<LDraft, LBody, LRev, LPage(i)>>
      [] t = "blank" -> <<<<>>, LBody, <<" ">>, <<"5">>>>
      [] t = "const" -> <<LBody, LMore, LPage(1)>>
      [] t = "tail" -> <<<<" ">>, <<>>, <<>>, <<>>, <<>>, <<>>, LBody>>
      [] t = "eleven" -> <<LBody, LMore, LMore, LMore, LMore, LMid,
                           LMore, LMore, LMore, LBody, LPage(i)>>
      [] t = "tally" -> IF i = 1 THEN <<<<"7">>, <<"7">>, <<"7">>, LBody, LMore, LMore, LBody>>
                        ELSE <<LBody, LMore, LMore, LRev, LMore, LMore, LBody>>
      [] OTHER -> <<<<>>>>

TemplatePage(t, i) == JoinWith(TemplateLines(t, i), <<"\n">>)

\* documents whose pages follow one template, and two of mixed pages
HFDocs ==
    {[i \in 1..n |-> TemplatePage(t, i)] : n \in 1..MaxPages, t \in HFTemplates}
        \cup {<<TemplatePage("footer", 1), TemplatePage("long", 2), TemplatePage("short", 3)>>,
              <<TemplatePage("draft", 1), TemplatePage("footer", 2)>>}

\* which pages' extraction failed: none, the first one, all of them
FailureMasks(n) == {{}, {1}, 1..n}

\* a page's text is filtered and counted when the page succeeded with some text
Usable(page_result) == page_result.success /\ page_result.text # <<>>

\* page_texts of extract_text_from_pdf_smart
UsableTexts(results) ==
    LET usable == SelectSeq(results, Usable)
    IN  [m \in DOMAIN usable |-> usable[m].text]

\* the pages' texts once the filtered texts are written back, in order
WriteBack(results, filtered_texts) ==
    [k \in DOMAIN results |->
        IF Usable(results[k])
        THEN filtered_texts[Cardinality({j \in 1..k : Usable(results[j])})]
        ELSE results[k].text]

\* total_text over the pages' texts
TotalText(results, texts) ==
    JoinWith([k \in DOMAIN results |->
                 IF results[k].success /\ texts[k] # <<>> THEN texts[k] \o <<"\n">> ELSE <<>>],
             <<>>)

NoPatterns == [header |-> {}, footer |-> {}]

HFParked ==
    /\ hfPatterns = NoPatterns
    /\ hfDoc = [call |-> "none", pages |-> <<>>]
    /\ hfOut = [page_texts |-> <<>>, filter_called |-> FALSE, filtered |-> <<>>,
                pages |-> <<>>, full_text |-> <<>>, raised |-> FALSE]
    /\ hfSettings = [HEADER_FOOTER_DETECTION |-> FALSE]

\* a fresh HeaderFooterFilter, under either value of the setting
HFInit ==
    /\ hfPatterns = NoPatterns
    /\ hfDoc = [call |-> "none", pages |-> <<>>]
    /\ hfOut = [page_texts |-> <<>>, filter_called |-> FALSE, filtered |-> <<>>,
                pages |-> <<>>, full_text |-> <<>>, raised |-> FALSE]
    /\ hfSettings \in [HEADER_FOOTER_DETECTION : BOOLEAN]

\* header_footer_filter.filter_headers_footers(pages)
HfFilter ==
    \E pages \in HFDocs :
        \E got \in {filter_headers_footers(pages, hfPatterns, hfSettings)} :
            /\ hfDoc' = [call |-> "filter_headers_footers",
                         pages |-> [i \in DOMAIN pages |-> [success |-> TRUE, text |-> pages[i]]]]
            /\ hfOut' = [page_texts |-> pages, filter_called |-> TRUE, filtered |-> got.pages,
                         pages |-> got.pages, full_text |-> <<>>, raised |-> FALSE]
            /\ hfPatterns' = got.patterns
            /\ UNCHANGED hfSettings

\* extract_text_from_pdf_smart(path) for a PDF whose pages gave these results:
\* filtering, the pages' new texts, full_text, and the RuntimeError when no page
\* succeeded
HfExtract ==
    \E pages \in HFDocs :
      \E failed \in FailureMasks(Len(pages)) :
        \E results \in {[i \in DOMAIN pages |->
                           IF i \in failed THEN [success |-> FALSE, text |-> <<>>]
                           ELSE [success |-> TRUE, text |-> pages[i]]]} :
          \E page_texts \in {UsableTexts(results)} :
            \E called \in {page_texts # <<>> /\ hfSettings.HEADER_FOOTER_DETECTION} :
              \E got \in {IF called
                          THEN filter_headers_footers(page_texts, hfPatterns, hfSettings)
                          ELSE [pages |-> page_texts, patterns |-> hfPatterns]} :
                \E texts \in {WriteBack(results, got.pages)} :
                    /\ hfDoc' = [call |-> "extract_text_from_pdf_smart", pages |-> results]
                    /\ hfOut' = [page_texts |-> page_texts, filter_called |-> called,
                                 filtered |-> got.pages, pages |-> texts,
                                 full_text |-> Strip(TotalText(results, texts)),
                                 raised |-> ~\E k \in DOMAIN results : results[k].success]
                    /\ hfPatterns' = got.patterns
                    /\ UNCHANGED hfSettings

-----------------------------------------------------------------------------
(* Header/footer filter: properties                                        *)

\* C7: filter_headers_footers never empties a page: every page text that held a
\* line (was not the empty text) when handed to the filter is returned with at
\* least one line, whatever patterns the filter holds.
C7_NeverEmptiesPage ==
    hfOut.filter_called =>
        /\ Len(hfOut.filtered) = Len(hfOut.page_texts)
        /\ \A i \in DOMAIN hfOut.page_texts :
               hfOut.page_texts[i] # <<>> => hfOut.filtered[i] # <<>>

\* the filter held header patterns and was handed a page of three or more lines
\* whose first five lines are all blank or removable; the page came back with text
C7_Witness ==
    /\ hfOut.filter_called
    /\ hfSettings.HEADER_FOOTER_DETECTION
    /\ hfPatterns.header # {}
    /\ \E i \in DOMAIN hfOut.page_texts :
          LET lines == SplitLines(hfOut.page_texts[i])
          IN  /\ Len(lines) >= 3
              /\ \A k \in DOMAIN FirstN(lines, 5) :
                     \/ Strip(lines[k]) = <<>>
                     \/ ShouldRemove(Strip(lines[k]), hfPatterns.header)
              /\ hfOut.filtered[i] # <<>>

\* C8 as stated: for a list of one or two page texts filter_headers_footers
\* returns every page text unchanged.
C8_AsStated ==
    hfDoc.call = "filter_headers_footers" /\ Len(hfOut.page_texts) < 3 =>
        hfOut.filtered = hfOut.page_texts

LastLine(text) == LET lines == SplitLines(text) IN lines[Len(lines)]

\* C9 as stated: with detection on, for a document of three or more pages, all
\* extracted, each ending with the line "Page N" for its own number N, extraction
\* does not raise and no line "Page N" is left in any page text or in full_text.
C9_AsStated ==
    /\ hfDoc.call = "extract_text_from_pdf_smart"
    /\ hfSettings.HEADER_FOOTER_DETECTION
    /\ Len(hfDoc.pages) >= 3
    /\ \A k \in DOMAIN hfDoc.pages :
           hfDoc.pages[k].success /\ LastLine(hfDoc.pages[k].text) = LPage(k)
    => /\ ~hfOut.raised
       /\ \A k \in DOMAIN hfOut.pages :
              /\ \A line \in Range(SplitLines(hfOut.pages[k])) : Strip(line) # LPage(k)
              /\ \A line \in Range(SplitLines(hfOut.full_text)) : Strip(line) # LPage(k)

\* C20 as stated: whatever documents the worker's filter processed before, the
\* page texts and full_text extract_text_from_pdf_smart gives for a document are
\* those it gives when the document is the first one processed (the filter holds
\* no pattern).
C20_AsStated ==
    hfDoc.call = "extract_text_from_pdf_smart" /\ hfOut.filter_called =>
        LET first == filter_headers_footers(hfOut.page_texts, NoPatterns, hfSettings).pages
            texts == WriteBack(hfDoc.pages, first)
        IN  /\ hfOut.pages = texts
            /\ hfOut.full_text = Strip(TotalText(hfDoc.pages, texts))

-----------------------------------------------------------------------------
(* refine_question: chat.py                                                *)

\* how the try block of refine_question can go: the client cannot be had, the
\* completion call raises, the response has no choice, its content is None, or
\* it has a content string
ServiceErrors == {"client_unavailable", "rate_limit", "connection", "authentication",
                  "api_error", "other_exception"}
ResponseErrors == {"no_choices", "none_content"}
RqOutcomes == ServiceErrors \cup ResponseErrors \cup {"content"}

\* the try block: the string it returns, unless it raises
RefineAttempt(question, outcome, content) ==
    IF outcome # "content" THEN [raised |-> TRUE, value |-> <<>>]
    ELSE LET refined == Strip(content)
         IN  IF /\ refined # <<>>
                /\ Len(refined) > 10
                /\ Len(refined) < 500
                /\ Lower(refined) # Lower(question)
             THEN [raised |-> FALSE, value |-> refined]
             ELSE [raised |-> FALSE, value |-> question]

\* refine_question with a handler for the errors of the OpenAI client only
refine_question_openai_errors_only(question, outcome, content) ==
    IF question = <<>> \/ Strip(question) = <<>> THEN [raised |-> FALSE, value |-> question]
    ELSE LET attempt == RefineAttempt(question, outcome, content)
         IN  IF attempt.raised /\ outcome \in {"rate_limit", "connection", "authentication",
                                                "api_error"}
             THEN [raised |-> FALSE, value |-> question]
             ELSE attempt

refine_question(question, outcome, content) ==
    IF question = <<>> \/ Strip(question) = <<>> THEN [raised |-> FALSE, value |-> question]
    ELSE LET attempt == RefineAttempt(question, outcome, content)
         IN  IF attempt.raised THEN [raised |-> FALSE, value |-> question]
             ELSE attempt

QFee == <<"w", "h", "a", "t", " ", "i", "s", " ", "t", "h", "e", " ", "f", "e", "e">>
QMgr == <<"m", "g", "r", "?">>

RqQuestions == {<<>>, <<" ", " ">>, QMgr, QFee}

\* content strings: empty, blank, of 10, 11, 499, 500 and 501 characters once
\* stripped, padded, and the question itself in capitals
RqContents ==
    {<<>>, <<" ", "\n">>, Rep("x", 10), Rep("x", 11), <<" ">> \o Rep("x", 11) \o <<"\n">>,
     <<"W", "H", "A", "T", " ", "I", "S", " ", "T", "H", "E", " ", "F", "E", "E">>, <<"W", "h", "a", "t", " ", "i", "s", " ", "t", "h", "e", " ", "m", "a", "n", "a", "g", "e", "r", "'", "s", " ", "f", "e", "e", "?">>,
     Rep("x", 499), Rep("x", 500), Rep("x", 501)}

RqParked ==
    /\ rqIn = [question |-> <<>>, outcome |-> "none", content |-> <<>>]
    /\ rqOut = [state |-> "parked", value |-> <<>>]

RqInit ==
    /\ \E question \in RqQuestions :
          \/ \E outcome \in ServiceErrors \cup ResponseErrors :
                rqIn = [question |-> question, outcome |-> outcome, content |-> <<>>]
          \/ \E content \in RqContents :
                rqIn = [question |-> question, outcome |-> "content", content |-> content]
    /\ rqOut = [state |-> "called", value |-> <<>>]

RqRefine ==
    /\ rqOut.state = "called"
    /\ \E got \in {refine_question(rqIn.question, rqIn.outcome, rqIn.content)} :
          rqOut' = [state |-> IF got.raised THEN "raised" ELSE "returned", value |-> got.value]
    /\ UNCHANGED rqIn

\* C10: refine_question never raises: whatever the question and however the
\* generation service answers (any exception, no choice, None content, empty
\* content, a content string) it returns a string, and when the service fails
\* (exception, None or empty content) that string is the question unmodified.
C10_NeverRaises ==
    rqOut.state # "called" =>
        /\ rqOut.state = "returned"
        /\ rqOut.value \in {rqIn.question, Strip(rqIn.content)}
        /\ (rqIn.outcome # "content" \/ Strip(rqIn.content) = <<>>) =>
               rqOut.value = rqIn.question

\* the client has no API key, a non-blank question, and the question came back
C10_Witness ==
    /\ rqOut.state = "returned"
    /\ rqIn.outcome = "client_unavailable"
    /\ rqIn.question = QFee
    /\ rqOut.value = QFee

\* C11 as stated: for a non-blank question and a content string of the service,
\* with L the length of the stripped content, refine_question returns the
\* stripped content when 10 <= L <= 500 and the content differs from the question
\* ignoring case, and returns the question otherwise.
C11_AsStated ==
    /\ rqOut.state = "returned"
    /\ rqIn.outcome = "content"
    /\ Strip(rqIn.question) # <<>>
    => LET refined == Strip(rqIn.content)
       IN  IF /\ 10 <= Len(refined)
              /\ Len(refined) <= 500
              /\ Lower(refined) # Lower(rqIn.question)
           THEN rqOut.value = refined
           ELSE rqOut.value = rqIn.question

\* the lines of a page outside its first 5 and its last 5 lines
MiddleLines(lines) == SubSeq(lines, 6, Len(lines) - 5)

\* kept is lines with some of the first 5 and some of the last 5 lines removed
\* and every other line in place
OnlyWindowsTouched(lines, kept) ==
    \E a \in 0..5, b \in 0..5 :
        /\ a + Len(MiddleLines(lines)) + b = Len(kept)
        /\ SubSeq(kept, a + 1, Len(kept) - b) = MiddleLines(lines)

\* C23 as stated: for every page handed to filter_headers_footers, each line
\* outside the first 5 and the last 5 lines of the page is present in the
\* filtered page text, unchanged and in its original order.
C23_AsStated ==
    hfOut.filter_called =>
        \A i \in DOMAIN hfOut.page_texts :
            OnlyWindowsTouched(SplitLines(hfOut.page_texts[i]), SplitLines(hfOut.filtered[i]))

\* the pages whose sample yields the pattern
PagesWith(pattern, samples) ==
    {i \in DOMAIN samples : pattern \in Range(_extract_potential_patterns(samples[i]))}

HeaderSamples(pages) == [i \in DOMAIN pages |-> PageSample(FirstN(SplitLines(pages[i]), 3))]
FooterSamples(pages) == [i \in DOMAIN pages |-> PageSample(LastN(SplitLines(pages[i]), 3))]

\* C24 as stated: after detection on a document of 3 or more pages, every
\* header (footer) pattern the filter holds and strips lines by occurs in the
\* header (footer) samples of at least 3 distinct pages of that document.
C24_AsStated ==
    (hfOut.filter_called /\ hfSettings.HEADER_FOOTER_DETECTION /\ Len(hfOut.page_texts) >= 3) =>
        /\ \A p \in hfPatterns.header :
              Cardinality(PagesWith(p, HeaderSamples(hfOut.page_texts))) >= 3
        /\ \A p \in hfPatterns.footer :
              Cardinality(PagesWith(p, FooterSamples(hfOut.page_texts))) >= 3

-----------------------------------------------------------------------------
(* Read path: embed_chunks, search_similar, answer_question                *)

\* the exception classes of the OpenAI client with their base classes, and the
\* class a failing call raises for each kind of service failure
Ancestors(cls) ==
    CASE cls = "AuthenticationError" ->
             {"AuthenticationError", "APIStatusError", "APIError", "OpenAIError", "Exception"}
      [] cls = "RateLimitError" ->
             {"RateLimitError", "APIStatusError", "APIError", "OpenAIError", "Exception"}
      [] cls = "APIConnectionError" ->
             {"APIConnectionError", "APIError", "OpenAIError", "Exception"}
      [] cls = "APIStatusError" -> {"APIStatusError", "APIError", "OpenAIError", "Exception"}
      [] OTHER -> {cls, "Exception"}

RaisedClass(kind) ==
    CASE kind = "authentication" -> "AuthenticationError"
      [] kind = "rate_limit" -> "RateLimitError"
      [] kind = "connection" -> "APIConnectionError"
      [] kind = "api_error" -> "APIStatusError"
      [] OTHER -> "KeyError"

Error(type, message) == [raised |-> TRUE, type |-> type, message |-> message, value |-> <<>>]
Return(value) == [raised |-> FALSE, type |-> "none", message |-> "none", value |-> value]

\* the first except clause, in source order, that catches an exception of class cls
Handle(clauses, cls) ==
    LET k == CHOOSE k \in DOMAIN clauses :
                 /\ clauses[k].catches \in Ancestors(cls)
                 /\ \A j \in 1..(k - 1) : clauses[j].catches \notin Ancestors(cls)
    IN  Error(clauses[k].type, clauses[k].message)

\* embed_chunks with the clause for OpenAIError placed first
embed_except_clauses_base_class_first ==
    <<[catches |-> "OpenAIError", type |-> "RuntimeError", message |-> "OpenAI API error: "],
      [catches |-> "AuthenticationError", type |-> "ValueError",
       message |-> "OpenAI authentication failed. Check your API key: "],
      [catches |-> "RateLimitError", type |-> "ValueError",
       message |-> "OpenAI rate limit exceeded. Please try again later: "],
      [catches |-> "APIConnectionError", type |-> "ConnectionError",
       message |-> "Failed to connect to OpenAI API. Check your internet connection: "],
      [catches |-> "Exception", type |-> "RuntimeError",
       message |-> "Unexpected error during embedding generation: "]>>

embed_except_clauses ==
    <<[catches |-> "AuthenticationError", type |-> "ValueError",
       message |-> "OpenAI authentication failed. Check your API key: "],
      [catches |-> "RateLimitError", type |-> "ValueError",
       message |-> "OpenAI rate limit exceeded. Please try again later: "],
      [catches |-> "APIConnectionError", type |-> "ConnectionError",
       message |-> "Failed to connect to OpenAI API. Check your internet connection: "],
      [catches |-> "OpenAIError", type |-> "RuntimeError", message |-> "OpenAI API error: "],
      [catches |-> "Exception", type |-> "RuntimeError",
       message |-> "Unexpected error during embedding generation: "]>>

answer_except_clauses ==
    <<[catches |-> "AuthenticationError", type |-> "ValueError",
       message |-> "OpenAI authentication failed. Check API key: "],
      [catches |-> "RateLimitError", type |-> "ValueError",
       message |-> "Rate limit exceeded. Try again later: "],
      [catches |-> "APIConnectionError", type |-> "ConnectionError",
       message |-> "Cannot connect to OpenAI API. Check internet: "],
      [catches |-> "OpenAIError", type |-> "RuntimeError", message |-> "OpenAI API error: "],
      [catches |-> "Exception", type |-> "RuntimeError",
       message |-> "Unexpected error during answer generation: "]>>

\* embed_chunks(chunks) when the embedding service answers as outcome says
embed_chunks(chunks, outcome) ==
    IF chunks = <<>> THEN Error("ValueError", "Chunks list cannot be empty")
    ELSE IF \E i \in DOMAIN chunks : Strip(chunks[i]) = <<>>
    THEN Error("ValueError", "Chunk at index i is empty or whitespace only")
    ELSE IF outcome = "ok" THEN Return(VectorsOf(chunks))
    ELSE Handle(embed_except_clauses, RaisedClass(outcome))

top_k == 5

\* search_similar(query_vector): the first top_k points of the collection in the
\* order of similarity the index computed, or the error of a failing query
search_similar(query_vector, ranking, outcome) ==
    IF query_vector = <<>> THEN Error("ValueError", "Query vector must be a non-empty list")
    ELSE IF outcome = "unexpected_response" THEN Error("RuntimeError", "Qdrant search failed: ")
    ELSE IF outcome = "other_exception"
    THEN Error("RuntimeError", "Failed to search similar chunks: ")
    ELSE Return(FirstN(ranking, top_k))

\* metadata.get(key) read as a truth value: a missing key, an empty string and
\* the number 0 are falsy
Has(metadata, key) == key \in DOMAIN metadata /\ metadata[key] # <<>>
HasNumber(metadata, key) == key \in DOMAIN metadata /\ metadata[key] # 0

format_metadata_for_context(metadata) ==
    LET part(key, label, text) == IF Has(metadata, key) THEN <<<<label>> \o text>> ELSE <<>>
        context_parts ==
            part("title", "Title: ", metadata.title)
              \o part("author", "Author: ", metadata.author)
              \o (IF HasNumber(metadata, "total_pages")
                  THEN <<<<"Total pages: ">> \o IntStr(metadata.total_pages)>> ELSE <<>>)
              \o part("creation_date", "Created: ", metadata.creation_date)
    IN  IF context_parts # <<>>
        THEN <<"Document Information: ">> \o JoinWith(context_parts, <<"; ">>)
        ELSE <<"Document Information: Basic PDF document">>

\* the input checks of answer_question: the error they raise, or None
answer_input_error(question, context_chunks) ==
    LET valid_chunks == SelectSeq([i \in DOMAIN context_chunks |-> Strip(context_chunks[i])],
                                  LAMBDA c : c # <<>>)
    IN  IF question = <<>> \/ Strip(question) = <<>>
        THEN Some(Error("ValueError", "Question cannot be empty"))
        ELSE IF context_chunks = <<>>
        THEN Some(Error("ValueError",
                        "No context chunks provided. Upload and index a PDF first."))
        ELSE IF valid_chunks = <<>>
        THEN Some(Error("ValueError", "All context chunks are empty"))
        ELSE None

\* answer_question that checks the question only
answer_question_unchecked_context(question, context_chunks, outcome, content) ==
    LET called(r, c) == [raised |-> r.raised, type |-> r.type, message |-> r.message,
                         value |-> r.value, service_called |-> c]
    IN  IF question = <<>> \/ Strip(question) = <<>>
        THEN called(Error("ValueError", "Question cannot be empty"), FALSE)
        ELSE IF outcome = "client_unavailable"
        THEN called(Handle(answer_except_clauses, RaisedClass(outcome)), FALSE)
        ELSE IF outcome \in ServiceErrors
        THEN called(Handle(answer_except_clauses, RaisedClass(outcome)), TRUE)
        ELSE IF outcome \in ResponseErrors
        THEN called(Handle(answer_except_clauses, "IndexError"), TRUE)
        ELSE IF content = <<>> \/ Strip(content) = <<>>
        THEN called(Handle(answer_except_clauses, "RuntimeError"), TRUE)
        ELSE called(Return(Strip(content)), TRUE)

\* answer_question(question, context_chunks): service_called tells whether the
\* generation service was called
answer_question(question, context_chunks, outcome, content) ==
    LET called(r, c) == [raised |-> r.raised, type |-> r.type, message |-> r.message,
                         value |-> r.value, service_called |-> c]
        invalid == answer_input_error(question, context_chunks)
    IN  IF invalid # None THEN called(invalid[1], FALSE)
        ELSE IF outcome = "client_unavailable"
        THEN called(Handle(answer_except_clauses, RaisedClass(outcome)), FALSE)
        ELSE IF outcome \in ServiceErrors
        THEN called(Handle(answer_except_clauses, RaisedClass(outcome)), TRUE)
        ELSE IF outcome \in ResponseErrors
        THEN called(Handle(answer_except_clauses, "IndexError"), TRUE)
        ELSE IF content = <<>> \/ Strip(content) = <<>>
        THEN called(Handle(answer_except_clauses, "RuntimeError"), TRUE)
        ELSE called(Return(Strip(content)), TRUE)

-----------------------------------------------------------------------------
(* process_question as a state machine: rag_pipeline.py                    *)

QDue == <<"W", "h", "a", "t", " ", "f", "e", "e", " ", "i", "s", " ", "d", "u", "e", "?">>

AskQuestions == {QMgr, QFee, <<" ", " ">>}
AskRewrites == {QDue, Rep("x", 10)}
AskRefineOutcomes == {"content", "rate_limit", "client_unavailable"}
EmbedOutcomes == {"ok", "authentication", "rate_limit", "connection", "api_error",
                  "other_exception"}
SearchOutcomes == {"ok", "unexpected_response", "other_exception"}
AnswerOutcomes == ServiceErrors \cup ResponseErrors \cup {"content"}
AnswerContents == {<<"D", "u", "e", " ", "n", "o", "w", ".", "\n">>, <<" ">>}

\* settings.INCLUDE_DOC_METADATA, the metadata-inclusion toggle of the configuration
AskSettings == [INCLUDE_DOC_METADATA : BOOLEAN]

\* the chunks of an indexed document, and the ids of its points in chunk order
DocChunks(tag, n) == [i \in 1..n |-> <<tag>> \o IntStr(i)]
PointIds(filename, n) == [i \in 1..n |-> point_id(filename, i - 1)]
Reverse(s) == [i \in DOMAIN s |-> s[Len(s) + 1 - i]]

\* collections written by upsert_chunks: one document of two chunks, and that
\* document with a second one of four chunks
CollA == upsert_chunks(<<>>, VectorsOf(DocChunks("fee clause ", 2)),
                       DocChunks("fee clause ", 2), FnA)
CollAB == upsert_chunks(CollA, VectorsOf(DocChunks("term ", 4)), DocChunks("term ", 4), FnB)

\* document metadata a point's payload may carry: filled in, all fields empty,
\* and an empty dictionary
DocMetadatas ==
    {[title |-> <<"F", "e", "e", "s">>, author |-> <<>>, total_pages |-> 3,
      creation_date |-> <<>>],
     [title |-> <<>>, author |-> <<>>, total_pages |-> 0, creation_date |-> <<>>],
     <<>>}

\* the points of CollA with a doc_metadata entry in their payload
CollWithMetadata(doc_metadata) ==
    [id \in DOMAIN CollA |->
        [text |-> CollA[id].text, source |-> CollA[id].source,
         chunk_id |-> CollA[id].chunk_id, vector |-> CollA[id].vector,
         doc_metadata |-> doc_metadata]]

\* the collection at the time of the question and the order in which the index
\* ranks its points for the question vector
AskCollections ==
    {[collection |-> <<>>, ranking |-> <<>>],
     [collection |-> CollA, ranking |-> PointIds(FnA, 2)],
     [collection |-> CollA, ranking |-> Reverse(PointIds(FnA, 2))],
     [collection |-> CollAB, ranking |-> PointIds(FnA, 2) \o PointIds(FnB, 4)],
     [collection |-> CollAB, ranking |-> Reverse(PointIds(FnA, 2) \o PointIds(FnB, 4))]}
        \cup {[collection |-> CollWithMetadata(m), ranking |-> PointIds(FnA, 2)] :
                 m \in DocMetadatas}

RankedPoints(stored) == [i \in DOMAIN stored.ranking |-> stored.collection[stored.ranking[i]]]

\* payload.get(key)
PayloadGet(payload, key) == IF key \in DOMAIN payload THEN payload[key] ELSE None

NoLocals ==
    [refined_question |-> <<>>, question_vector |-> <<>>, search_results |-> <<>>,
     context_chunks |-> <<>>, calls |-> <<>>, generation_calls |-> <<>>,
     result |-> None, error |-> None]

AskParked ==
    /\ askIn = [question |-> <<>>, settings |-> [INCLUDE_DOC_METADATA |-> FALSE],
                stored |-> [collection |-> <<>>, ranking |-> <<>>]]
    /\ askPc = "parked"
    /\ ask = NoLocals

AskInit ==
    /\ askIn \in [question : AskQuestions, settings : AskSettings, stored : AskCollections]
    /\ askPc = "received"
    /\ ask = NoLocals

\* the log of the calls made: function, argument, collaborator outcome, value
\* returned (None when it raised)
Called(fn, arg, outcome, returned) ==
    Append(ask.calls, [fn |-> fn, arg |-> arg, outcome |-> outcome, returned |-> returned])

\* original_question = question, with refined_question in its place
original_question_refined == ask.refined_question

\* original_question = question
original_question == askIn.question

\* 1) refined_question = refine_question(question)
AskRefine ==
    /\ askPc = "received"
    /\ \E outcome \in AskRefineOutcomes, content \in AskRewrites :
          /\ outcome # "content" => content = QDue
          /\ \E got \in {refine_question(askIn.question, outcome, content)} :
                ask' = [ask EXCEPT
                          !.refined_question = got.value,
                          !.calls = Called("refine_question", askIn.question, outcome,
                                          Some(got.value)),
                          !.generation_calls =
                              IF Strip(askIn.question) # <<>> /\ outcome # "client_unavailable"
                              THEN Append(@, "refine_question") ELSE @]
    /\ askPc' = "refined"
    /\ UNCHANGED askIn

\* 2) question_vector = embed_chunks([refined_question])[0]
AskEmbed ==
    /\ askPc = "refined"
    /\ \E outcome \in EmbedOutcomes :
          \E got \in {embed_chunks(<<ask.refined_question>>, outcome)} :
             IF got.raised
             THEN /\ ask' = [ask EXCEPT !.calls = Called("embed_chunks", ask.refined_question,
                                                         outcome, None),
                                        !.error = Some([type |-> got.type,
                                                        message |-> got.message,
                                                        from |-> "embed_chunks",
                                                        failure |-> outcome])]
                  /\ askPc' = "raised"
             ELSE /\ ask' = [ask EXCEPT !.calls = Called("embed_chunks", ask.refined_question,
                                                         outcome, Some(got.value)),
                                        !.question_vector = got.value[1]]
                  /\ askPc' = "embedded"
    /\ UNCHANGED askIn

\* 3) search_results = search_similar(question_vector); context_chunks = their texts
AskRetrieve ==
    /\ askPc = "embedded"
    /\ \E outcome \in SearchOutcomes :
          \E got \in {search_similar(ask.question_vector, RankedPoints(askIn.stored), outcome)} :
             IF got.raised
             THEN /\ ask' = [ask EXCEPT !.calls = Called("search_similar", ask.question_vector,
                                                         outcome, None),
                                        !.error = Some([type |-> got.type,
                                                        message |-> got.message,
                                                        from |-> "search_similar",
                                                        failure |-> outcome])]
                  /\ askPc' = "raised"
             ELSE /\ ask' = [ask EXCEPT !.calls = Called("search_similar", ask.question_vector,
                                                         outcome, Some(got.value)),
                                        !.search_results = got.value,
                                        !.context_chunks =
                                            [i \in DOMAIN got.value |-> got.value[i].text]]
                  /\ askPc' = "retrieved"
    /\ UNCHANGED askIn

\* 4) the metadata of the first result is put in front of the context
AskAugment ==
    /\ askPc = "retrieved"
    /\ IF ask.search_results # <<>> /\ askIn.settings.INCLUDE_DOC_METADATA
       THEN \E doc_metadata \in {PayloadGet(ask.search_results[1], "doc_metadata")} :
               IF doc_metadata # None
               THEN ask' = [ask EXCEPT
                              !.calls = Called("format_metadata_for_context", doc_metadata,
                                               "ok",
                                               Some(format_metadata_for_context(doc_metadata))),
                              !.context_chunks =
                                  <<format_metadata_for_context(doc_metadata)>> \o @]
               ELSE UNCHANGED ask
       ELSE UNCHANGED ask
    /\ askPc' = "augmented"
    /\ UNCHANGED askIn

\* 5) answer = answer_question(original_question, context_chunks), and the result
AskAnswer ==
    /\ askPc = "augmented"
    /\ \E outcome \in AnswerOutcomes, content \in AnswerContents :
          /\ outcome # "content" => content = <<" ">>
          /\ \E got \in {answer_question(original_question, ask.context_chunks, outcome,
                                         content)} :
                \E logged \in {[ask EXCEPT
                                  !.calls = Called("answer_question", original_question, outcome,
                                                   IF got.raised THEN None
                                                   ELSE Some(got.value)),
                                  !.generation_calls =
                                      IF got.service_called THEN Append(@, "answer_question")
                                      ELSE @]} :
                   IF got.raised
                   THEN /\ ask' = [logged EXCEPT
                                     !.error = Some([type |-> got.type, message |-> got.message,
                                                     from |-> "answer_question",
                                                     failure |-> outcome])]
                        /\ askPc' = "raised"
                   ELSE /\ ask' = [logged EXCEPT
                                     !.result =
                                         Some([question |-> original_question,
                                               refined_question |->
                                                   IF ask.refined_question # original_question
                                                   THEN Some(ask.refined_question) ELSE None,
                                               answer |-> got.value,
                                               context_used |-> ask.context_chunks])]
                        /\ askPc' = "answered"
    /\ UNCHANGED askIn

-----------------------------------------------------------------------------
(* Read path: properties                                                   *)

CallNames == [i \in DOMAIN ask.calls |-> ask.calls[i].fn]
IsPrefix(s, t) == Len(s) <= Len(t) /\ s = SubSeq(t, 1, Len(s))
AskEnded == askPc \in {"answered", "raised"}
CallTo(fn) == ask.calls[CHOOSE i \in DOMAIN ask.calls : ask.calls[i].fn = fn]
WasCalled(fn) == \E i \in DOMAIN ask.calls : ask.calls[i].fn = fn

\* C12: process_question makes its calls in the order refine_question,
\* embed_chunks, search_similar, (format_metadata_for_context), answer_question;
\* embed_chunks receives the question refine_question returned, which is the
\* original one when refinement fell back; answer_question receives the original
\* question and the returned 'question' field is the original question.
C12_FixedOrder ==
    /\ \/ IsPrefix(CallNames, <<"refine_question", "embed_chunks", "search_similar",
                               "format_metadata_for_context", "answer_question">>)
       \/ IsPrefix(CallNames, <<"refine_question", "embed_chunks", "search_similar",
                               "answer_question">>)
    /\ WasCalled("embed_chunks") =>
          /\ CallTo("embed_chunks").arg = CallTo("refine_question").returned[1]
          /\ CallTo("refine_question").outcome # "content" =>
                 CallTo("embed_chunks").arg = askIn.question
    /\ WasCalled("answer_question") => CallTo("answer_question").arg = askIn.question
    /\ askPc = "answered" =>
          /\ WasCalled("answer_question")
          /\ ask.result[1].question = askIn.question

\* a question was refined, its metadata put in front, and answered: the embedding
\* got the rewrite and the answer call the original question
C12_Witness ==
    /\ askPc = "answered"
    /\ Len(ask.calls) = 5
    /\ ask.result[1].refined_question = Some(QDue)
    /\ CallTo("embed_chunks").arg = QDue
    /\ CallTo("answer_question").arg = QMgr

\* C13 as stated: when the collection holds no point and retrieval returned, the
\* request ends with the "no context" ValueError and no call was made to the
\* generation service during the request.
C13_AsStated ==
    AskEnded /\ askIn.stored.collection = <<>> /\ WasCalled("answer_question") =>
        /\ askPc = "raised"
        /\ ask.error[1].message = "No context chunks provided. Upload and index a PDF first."
        /\ ask.generation_calls = <<>>

\* C13: when retrieval returns an empty result set, as it does for a collection
\* without points, the request ends with the "no context" ValueError raised by
\* answer_question, and answer_question makes no call to the generation service:
\* the only call to it in the request is the one refine_question made before
\* retrieval.
C13_NoContextError ==
    AskEnded /\ WasCalled("answer_question") /\ ask.search_results = <<>> =>
        /\ askPc = "raised"
        /\ ask.error[1].from = "answer_question"
        /\ ask.error[1].type = "ValueError"
        /\ ask.error[1].message = "No context chunks provided. Upload and index a PDF first."
        /\ \A i \in DOMAIN ask.generation_calls : ask.generation_calls[i] = "refine_question"

\* nothing indexed, the question went through refinement (which called the
\* generation service), embedding and retrieval, and answer_question refused it
C13_Witness ==
    /\ askPc = "raised"
    /\ askIn.stored.collection = <<>>
    /\ askIn.question = QFee
    /\ WasCalled("answer_question")
    /\ ask.generation_calls = <<"refine_question">>
    /\ ask.error[1].from = "answer_question"

\* the collection was written by upsert_chunks alone
WrittenByUpsert == askIn.stored.collection \in {CollA, CollAB}

\* C14 as stated: for a collection written by upsert_chunks, once the context is
\* assembled: with at least one result and INCLUDE_DOC_METADATA on, the context is
\* one metadata summary followed by the texts of the results in rank order, and
\* otherwise it is exactly those texts.
C14_AsStated ==
    askPc \in {"augmented", "answered"} /\ WrittenByUpsert =>
        LET texts == [i \in DOMAIN ask.search_results |-> ask.search_results[i].text]
        IN  IF ask.search_results # <<>> /\ askIn.settings.INCLUDE_DOC_METADATA
            THEN /\ Len(ask.context_chunks) = Len(texts) + 1
                 /\ ask.context_chunks[1][1] \in {"Document Information: ",
                                                   "Document Information: Basic PDF document"}
                 /\ Tail(ask.context_chunks) = texts
            ELSE ask.context_chunks = texts

Failures == {"authentication", "rate_limit", "connection", "api_error"}

ClausesOf(fn) == IF fn = "embed_chunks" THEN embed_except_clauses ELSE answer_except_clauses

-----------------------------------------------------------------------------
(* Page extraction with OCR fallback: extraction.py, ocr.py               *)

MaxDocPages == 2

\* settings.FORCE_OCR, MIN_TEXT_LENGTH_FOR_OCR_FALLBACK, OCR_CONFIDENCE_THRESHOLD
ExSettings ==
    [FORCE_OCR : BOOLEAN, MIN_TEXT_LENGTH_FOR_OCR_FALLBACK : {10},
     OCR_CONFIDENCE_THRESHOLD : {60}]

AlnumSpaceCount(text) ==
    Cardinality({i \in DOMAIN text : IsAlphaCh(text[i]) \/ IsDigitCh(text[i])
                                        \/ IsSpaceCh(text[i])})

\* is_text_quality_poor without the test on the share of alphanumeric characters
is_text_quality_poor_length_only(text, settings) ==
    IF text = <<>> \/ Strip(text) = <<>> THEN TRUE
    ELSE IF Len(Strip(text)) < settings.MIN_TEXT_LENGTH_FOR_OCR_FALLBACK THEN TRUE
    ELSE FALSE

\* OCRService.is_text_quality_poor(text)
is_text_quality_poor(text, settings) ==
    IF text = <<>> \/ Strip(text) = <<>> THEN TRUE
    ELSE IF Len(Strip(text)) < settings.MIN_TEXT_LENGTH_FOR_OCR_FALLBACK THEN TRUE
    ELSE IF 2 * AlnumSpaceCount(text) < Len(text) THEN TRUE
    ELSE FALSE

RECURSIVE SumOf(_)
SumOf(s) == IF s = <<>> THEN 0 ELSE Head(s) + SumOf(Tail(s))

\* OCRService.extract_text_with_ocr(image): the words of positive confidence
\* joined by spaces and their average confidence; ("", 0.0) when the engine raises
extract_text_with_ocr(engine) ==
    IF engine.raises THEN [text |-> <<>>, confidence |-> 0]
    ELSE LET counted == SelectSeq(engine.words,
                                  LAMBDA w : w.conf > 0 /\ Strip(w.text) # <<>>)
             text_parts == [i \in DOMAIN counted |-> Strip(counted[i].text)]
             confidences == [i \in DOMAIN counted |-> counted[i].conf]
         IN  [text |-> JoinWith(text_parts, <<" ">>),
              confidence |-> IF confidences # <<>>
                             THEN SumOf(confidences) \div Len(confidences) ELSE 0]

PageResult(page_number, text, method, confidence, error, success) ==
    [page_number |-> page_number, text |-> text, method |-> method,
     confidence |-> confidence, error |-> error, success |-> success]

\* _apply_layout_processing(page_text, page, page_num)
_apply_layout_processing(page_text, layout) ==
    IF page_text = <<>> \/ Strip(page_text) = <<>> THEN page_text
    ELSE IF layout.outcome = "reordered" /\ layout.text # page_text THEN layout.text
    ELSE page_text

\* _extract_with_ocr(page, page_num, pdf_path)
_extract_with_ocr(page_num, ocr) ==
    IF ocr.render = "raises"
    THEN PageResult(page_num, <<>>, "ocr_failed",
                    None, Some(<<"OCR failed for page ", page_num, ": to_image">>), FALSE)
    ELSE IF ocr.preprocess = "raises"
    THEN PageResult(page_num, <<>>, "ocr_failed",
                    None, Some(<<"OCR failed for page ", page_num, ": convert">>), FALSE)
    ELSE LET got == extract_text_with_ocr(ocr.engine)
         IN  PageResult(page_num, got.text, "ocr", Some(got.confidence), None, TRUE)

\* _process_single_page(page, page_num, pdf_path): native.text is
\* page.extract_text() or ""
_process_single_page(page_num, native, ocr, settings) ==
    IF ~settings.FORCE_OCR /\ native.outcome = "raises"
    THEN PageResult(page_num, <<>>, "failed", None,
                    Some(<<"Failed to process page ", page_num, ": extract_text">>), FALSE)
    ELSE IF ~settings.FORCE_OCR /\ ~is_text_quality_poor(native.text, settings)
    THEN PageResult(page_num, _apply_layout_processing(native.text, native.layout),
                    "text", None, None, TRUE)
    ELSE _extract_with_ocr(page_num, ocr)

\* overall_success computed as "no page failed"
overall_success_no_failed_page(pages) == \A k \in DOMAIN pages : pages[k].success

\* overall_success = successful_pages > 0
overall_success(pages) == Cardinality({k \in DOMAIN pages : pages[k].success}) > 0

TGood == <<"F", "e", "e", " ", "i", "s", " ", "d", "u", "e">>
TReordered == <<"d", "u", "e", " ", "i", "s", " ", "F", "e", "e">>
TShort == <<" ", "F", "e", "e", " ", "d", "u", "e", ".", " ">>
TGarbled == Rep("#", 10) \o <<"F", "e", "e", " ", "i", "s", " ", "d", "u">>
TGarbledHalf == Rep("#", 10) \o TGood

NoLayout == [outcome |-> "unchanged", text |-> <<>>]
NotCalled == [outcome |-> "not_called"]

\* what page.extract_text() and the layout analysis do for a page
NativeOutcomes ==
    {[outcome |-> "raises", text |-> <<>>, layout |-> NoLayout],
     [outcome |-> "none", text |-> <<>>, layout |-> NoLayout],
     [outcome |-> "text", text |-> TShort, layout |-> NoLayout],
     [outcome |-> "text", text |-> TGarbled, layout |-> NoLayout],
     [outcome |-> "text", text |-> TGarbledHalf, layout |-> NoLayout],
     [outcome |-> "text", text |-> TGood, layout |-> NoLayout],
     [outcome |-> "text", text |-> TGood, layout |-> [outcome |-> "reordered",
                                                      text |-> TReordered]],
     [outcome |-> "text", text |-> TGood, layout |-> [outcome |-> "raises", text |-> <<>>]]}

\* what rendering, preprocessing and the OCR engine do for a page: words come
\* with their confidence
OcrOutcomes ==
    {[outcome |-> "called", render |-> "raises", preprocess |-> "ok",
      engine |-> [raises |-> FALSE, words |-> <<>>]],
     [outcome |-> "called", render |-> "ok", preprocess |-> "raises",
      engine |-> [raises |-> FALSE, words |-> <<>>]],
     [outcome |-> "called", render |-> "ok", preprocess |-> "ok",
      engine |-> [raises |-> TRUE, words |-> <<>>]],
     [outcome |-> "called", render |-> "ok", preprocess |-> "ok",
      engine |-> [raises |-> FALSE,
                  words |-> <<[text |-> <<"F", "e", "e">>, conf |-> 90],
                              [text |-> <<"-">>, conf |-> -1],
                              [text |-> <<" ">>, conf |-> 95],
                              [text |-> <<"d", "u", "e">>, conf |-> 30]>>]],
     [outcome |-> "called", render |-> "ok", preprocess |-> "ok",
      engine |-> [raises |-> FALSE, words |-> <<[text |-> <<"j", "u", "n", "k">>,
                                                 conf |-> 20]>>]],
     [outcome |-> "called", render |-> "ok", preprocess |-> "ok",
      engine |-> [raises |-> FALSE, words |-> <<>>]]}

ExParked ==
    /\ exIn = [total_pages |-> 0,
               settings |-> [FORCE_OCR |-> FALSE, MIN_TEXT_LENGTH_FOR_OCR_FALLBACK |-> 0,
                             OCR_CONFIDENCE_THRESHOLD |-> 0]]
    /\ exLog = <<>>
    /\ exPages = <<>>
    /\ exOut = [status |-> "parked", errors |-> <<>>, total_text |-> <<>>, result |-> None]

\* extract_text_from_pdf_smart(path) called on a PDF that opens
ExInit ==
    /\ exIn \in [total_pages : 0..MaxDocPages, settings : ExSettings]
    /\ exLog = <<>>
    /\ exPages = <<>>
    /\ exOut = [status |-> "open", errors |-> <<>>, total_text |-> <<>>, result |-> None]

\* one turn of the loop over pdf.pages; exLog keeps what the page's native
\* extraction and its OCR did, when they were called
ExPage ==
    /\ exOut.status = "open"
    /\ Len(exPages) < exIn.total_pages
    /\ \E native \in NativeOutcomes, ocr \in OcrOutcomes :
          \E page_result \in {_process_single_page(Len(exPages) + 1, native, ocr,
                                                   exIn.settings)} :
             /\ exPages' = Append(exPages, page_result)
             /\ exLog' = Append(exLog,
                                [native |-> IF exIn.settings.FORCE_OCR THEN NotCalled
                                            ELSE native,
                                 ocr |-> IF page_result.method \in {"ocr", "ocr_failed"}
                                         THEN ocr ELSE NotCalled])
             /\ exOut' = [exOut EXCEPT
                            !.total_text =
                                IF page_result.success /\ page_result.text # <<>>
                                THEN @ \o page_result.text \o <<"\n">> ELSE @,
                            !.errors =
                                IF ~(page_result.success /\ page_result.text # <<>>)
                                   /\ ~page_result.success
                                THEN Append(@, [page_number |-> page_result.page_number,
                                                error |-> page_result.error,
                                                method |-> page_result.method])
                                ELSE @]
    /\ UNCHANGED <<exIn, hfVars>>

\* after the loop: header/footer filtering, statistics, the result or the error
ExFinish ==
    /\ exOut.status = "open"
    /\ Len(exPages) = exIn.total_pages
    /\ \E page_texts \in {UsableTexts(exPages)} :
        \E called \in {page_texts # <<>> /\ hfSettings.HEADER_FOOTER_DETECTION} :
          \E got \in {IF called
                      THEN filter_headers_footers(page_texts, hfPatterns, hfSettings)
                      ELSE [pages |-> page_texts, patterns |-> hfPatterns]} :
            \E texts \in {WriteBack(exPages, got.pages)} :
              \E pages \in {[k \in DOMAIN exPages |-> [exPages[k] EXCEPT !.text = texts[k]]]} :
                 /\ exPages' = pages
                 /\ hfPatterns' = got.patterns
                 /\ exOut' =
                      IF exIn.total_pages = 0 \/ ~overall_success(pages)
                      THEN [exOut EXCEPT !.status = "raised",
                                         !.result = Some([type |-> "RuntimeError"])]
                      ELSE [exOut EXCEPT
                              !.status = "returned",
                              !.total_text = TotalText(exPages, texts),
                              !.result =
                                  Some([success |-> overall_success(pages),
                                        pages |-> pages,
                                        errors |-> exOut.errors,
                                        stats |->
                                            [total_pages |-> exIn.total_pages,
                                             successful_pages |->
                                                 Cardinality({k \in DOMAIN pages :
                                                                 pages[k].success}),
                                             failed_pages |-> Len(exOut.errors)],
                                        full_text |-> Strip(TotalText(exPages, texts))])]
    /\ UNCHANGED <<exIn, exLog, hfDoc, hfOut, hfSettings>>

-----------------------------------------------------------------------------
(* Page extraction: properties                                             *)

ExEnded == exOut.status \in {"returned", "raised"}
FailedPages == SelectSeq(exPages, LAMBDA p : ~p.success)
OcrReached(k) == exPages[k].method \in {"ocr", "ocr_failed"}

\* C15: extract_text_from_pdf_smart ends with one PageResult per page, numbered
\* in page order; its errors list holds the pages with success = false and only
\* those; a result is returned, with success = true and total_pages =
\* successful_pages + failed_pages, exactly when some page succeeded, and the
\* call raises exactly when no page succeeded.
C15_PageFailuresCollected ==
    /\ \A k \in DOMAIN exPages : exPages[k].page_number = k
    /\ Len(exOut.errors) = Len(FailedPages)
    /\ \A i \in DOMAIN exOut.errors :
          /\ exOut.errors[i].page_number = FailedPages[i].page_number
          /\ exOut.errors[i].error = FailedPages[i].error
    /\ ExEnded =>
          /\ Len(exPages) = exIn.total_pages
          /\ exOut.status = "returned" <=> \E k \in DOMAIN exPages : exPages[k].success
          /\ exOut.status = "raised" <=> \A k \in DOMAIN exPages : ~exPages[k].success
          /\ exOut.status = "returned" =>
                /\ exOut.result[1].success
                /\ exOut.result[1].pages = exPages
                /\ exOut.result[1].errors = exOut.errors
                /\ exOut.result[1].stats.total_pages = Len(exPages)
                /\ exOut.result[1].stats.total_pages =
                       exOut.result[1].stats.successful_pages
                           + exOut.result[1].stats.failed_pages

\* the first page failed, the second was extracted, and a result was returned
C15_Witness ==
    /\ exOut.status = "returned"
    /\ Len(exPages) = 2
    /\ ~exPages[1].success
    /\ exPages[2].success
    /\ Len(exOut.result[1].errors) = 1

\* a step of the page's extraction threw: native extraction, rendering the page,
\* preprocessing the image, or the OCR engine
Threw(log) ==
    \/ log.native.outcome = "raises"
    \/ /\ log.ocr.outcome = "called"
       /\ \/ log.ocr.render = "raises"
          \/ log.ocr.preprocess = "raises"
          \/ log.ocr.engine.raises

\* C16 as stated: every page for which native extraction, rendering,
\* preprocessing or the OCR engine threw has success = false, carries the error,
\* and is in the errors list; and all pages of the document get processed.
C16_AsStated ==
    /\ ExEnded => Len(exPages) = exIn.total_pages
    /\ \A k \in DOMAIN exLog :
          Threw(exLog[k]) =>
              /\ ~exPages[k].success
              /\ exPages[k].error # None
              /\ \E i \in DOMAIN exOut.errors : exOut.errors[i].page_number = k

\* the text is empty, shorter than the minimum once stripped, or less than half
\* of its characters are alphanumeric or whitespace
PoorText(text) ==
    \/ Strip(text) = <<>>
    \/ Len(Strip(text)) < exIn.settings.MIN_TEXT_LENGTH_FOR_OCR_FALLBACK
    \/ 2 * AlnumSpaceCount(text) < Len(text)

OcrReturnedText(log) ==
    /\ log.ocr.outcome = "called"
    /\ log.ocr.render = "ok"
    /\ log.ocr.preprocess = "ok"
    /\ ~log.ocr.engine.raises
    /\ extract_text_with_ocr(log.ocr.engine).text # <<>>

-----------------------------------------------------------------------------
(* upsert_chunks over filenames with '_' and digits: qdrant.py             *)

MaxChunks == 2

\* filenames whose id texts would meet if the separator or the index were lost
IndexFilenames ==
    {<<"a">>, <<"a", "_", "1">>, <<"a", "_", "1", "_", "0">>, <<"1">>, <<"_", "1">>,
     <<"a", "_">>}

\* the chunks of a file, told apart by file and position
IndexChunks(filename, n) == [i \in 1..n |-> filename \o <<" chunk ">> \o IntStr(i)]

IdxParked == indexed = <<>>

\* upsert_chunks(vectors, chunks, filename) at the end of a run for a file that
\* is_file_indexed reported as not indexed; indexed keeps the chunks handed over
IdxUpsert ==
    /\ \E filename \in IndexFilenames, n \in 1..MaxChunks :
          /\ ~is_file_indexed(index, filename)
          /\ \E chunks \in {IndexChunks(filename, n)} :
                /\ index' = upsert_chunks(index, VectorsOf(chunks), chunks, filename)
                /\ indexed' = [f \in DOMAIN indexed \cup {filename} |->
                                 IF f = filename THEN chunks ELSE indexed[f]]
    /\ UNCHANGED <<jobs, queue, files, nextJob, lastUpload, run>>

PointsOf(filename) == {id \in DOMAIN index : index[id].source = filename}

\* C18: after successful indexing runs over distinct filenames, which may hold
\* '_' and digits, for every indexed filename f with N chunks the index holds
\* exactly N points with source f, the one for chunk i (0 <= i < N) having the id
\* computed from (f, i), chunk_id i and the i-th chunk text; ids computed for
\* different (filename, index) pairs differ, so no file's points were replaced.
C18_PointsPerFile ==
    /\ \A f \in DOMAIN indexed :
          /\ Cardinality(PointsOf(f)) = Len(indexed[f])
          /\ \A i \in 0..(Len(indexed[f]) - 1) :
                /\ point_id(f, i) \in PointsOf(f)
                /\ index[point_id(f, i)].chunk_id = i
                /\ index[point_id(f, i)].text = indexed[f][i + 1]
    /\ \A f1 \in DOMAIN indexed, f2 \in DOMAIN indexed :
          \A i1 \in 0..(Len(indexed[f1]) - 1), i2 \in 0..(Len(indexed[f2]) - 1) :
              <<f1, i1>> # <<f2, i2>> => point_id(f1, i1) # point_id(f2, i2)
    /\ \A id \in DOMAIN index : index[id].source \in DOMAIN indexed

\* "a", "a_1" and "a_1_0" are all indexed with two chunks each
C18_Witness ==
    /\ {<<"a">>, <<"a", "_", "1">>, <<"a", "_", "1", "_", "0">>} \subseteq DOMAIN indexed
    /\ \A f \in DOMAIN indexed : Len(indexed[f]) = 2
    /\ Cardinality(DOMAIN index) = 2 * Cardinality(DOMAIN indexed)

-----------------------------------------------------------------------------
(* Job tracker: update_job_status as the redis GET and SET it is made of   *)

Callers == {"c1", "c2"}

\* job 1 has a record, job 2 has none
JobIds == {1, 2}

\* the four kinds of update process_pdf_upload makes
UpdateCalls ==
    {[status |-> "processing", progress |-> 10, message |-> "Initializing PDF processing",
      result |-> None, error |-> None],
     [status |-> "processing", progress |-> 90, message |-> "Storing vectors in database",
      result |-> None, error |-> None],
     [status |-> "completed", progress |-> 100,
      message |-> "PDF processing completed successfully",
      result |-> Some("indexed"), error |-> None],
     [status |-> "failed", progress |-> 0, message |-> "PDF processing failed",
      result |-> None, error |-> Some("PDF processing failed")]}

get_job(js, job_id) == IF job_id \in DOMAIN js THEN Some(js[job_id]) ELSE None

\* the assignments with progress kept from falling
updated_job_data_max_progress(job_data, call) ==
    [job_data EXCEPT !.status = call.status,
                     !.progress = IF call.progress > @ THEN call.progress ELSE @,
                     !.message = call.message,
                     !.result = IF call.result # None THEN call.result ELSE @,
                     !.error = IF call.error # None THEN call.error ELSE @]

\* job_data after the assignments of update_job_status
updated_job_data(job_data, call) ==
    [job_data EXCEPT !.status = call.status,
                     !.progress = call.progress,
                     !.message = call.message,
                     !.result = IF call.result # None THEN call.result ELSE @,
                     !.error = IF call.error # None THEN call.error ELSE @]

UpdIdle == [pc |-> "idle", job_id |-> 0, call |-> None, job_data |-> None]

UpdParked == upd = <<>> /\ applied = None

UpdInit ==
    /\ jobs = create_job(<<>>, 1, [filename |-> FnA])
    /\ queue = <<>> /\ files = <<>> /\ index = <<>> /\ nextJob = 1
    /\ lastUpload = [status |-> 200, job_id |-> 1]
    /\ run = [w \in Workers |-> IdleRun]
    /\ upd = [c \in Callers |-> UpdIdle]
    /\ applied = None

\* job_data = self.get_job(job_id); if not job_data: return
UpdGet(c) ==
    /\ upd[c].pc = "idle"
    /\ \E job_id \in JobIds, call \in UpdateCalls :
          upd' = [upd EXCEPT ![c] =
                    IF get_job(jobs, job_id) = None THEN UpdIdle
                    ELSE [pc |-> "set", job_id |-> job_id, call |-> Some(call),
                          job_data |-> get_job(jobs, job_id)]]
    /\ UNCHANGED <<jobs, applied>>

\* the assignments, then self.redis_client.set(job_key, json.dumps(job_data))
UpdSet(c) ==
    /\ upd[c].pc = "set"
    /\ jobs' = [j \in DOMAIN jobs \cup {upd[c].job_id} |->
                  IF j = upd[c].job_id
                  THEN updated_job_data(upd[c].job_data[1], upd[c].call[1])
                  ELSE jobs[j]]
    /\ applied' = Some([caller |-> c, job_id |-> upd[c].job_id, call |-> upd[c].call[1],
                        read |-> upd[c].job_data[1], replaced |-> jobs[upd[c].job_id]])
    /\ upd' = [upd EXCEPT ![c] = UpdIdle]

-----------------------------------------------------------------------------
(* Job tracker: properties                                                 *)

\* C21: whatever the interleaving of the callers' reads and writes, the status,
\* progress and message stored for a job are those of the update_job_status call
\* whose write was applied last; each is the one value of that call, neither
\* combined with nor appended to what an earlier update stored.
C21_LastWriteWins ==
    applied # None =>
        LET a == applied[1]
        IN  /\ jobs[a.job_id].status = a.call.status
            /\ jobs[a.job_id].progress = a.call.progress
            /\ jobs[a.job_id].message = a.call.message
            /\ jobs[a.job_id].metadata = a.read.metadata

\* two callers read the same record, one wrote, and the other's write then
\* replaced it with a different status, progress and message
C21_Witness ==
    /\ applied # None
    /\ applied[1].replaced # applied[1].read
    /\ applied[1].replaced.status # applied[1].call.status
    /\ applied[1].replaced.progress > applied[1].call.progress
    /\ jobs[applied[1].job_id].status = applied[1].call.status

-----------------------------------------------------------------------------
(* Write path: the life of a job record                                    *)

Terminal == {"completed", "failed"}

\* C26 as stated: once a job's status is completed or failed, no step changes
\* it, redelivery of its message included.
C26_AsStated ==
    [][\A j \in DOMAIN jobs :
          jobs[j].status \in Terminal => jobs'[j].status = jobs[j].status]_vars

\* C27 as stated: a completed job has progress 100, a result and no error; a
\* failed job has an error and no result; a queued job has progress 0 and
\* neither result nor error.
C27_AsStated ==
    \A j \in DOMAIN jobs :
        /\ jobs[j].status = "completed" =>
              jobs[j].progress = 100 /\ jobs[j].result # None /\ jobs[j].error = None
        /\ jobs[j].status = "failed" => jobs[j].error # None /\ jobs[j].result = None
        /\ jobs[j].status = "queued" =>
              jobs[j].progress = 0 /\ jobs[j].result = None /\ jobs[j].error = None

\* C29 as stated: every job record that create_job wrote eventually leaves
\* status queued.
C29_AsStated ==
    \A j \in 1..MaxJobs :
        [](j \in DOMAIN jobs => <>(j \in DOMAIN jobs /\ jobs[j].status # "queued"))

-----------------------------------------------------------------------------
(* Write path: two consumers                                               *)

TwoWorkers == {"w1", "w2"}

\* the runs of process_pdf_upload that have called extraction, embedding or upsert
Writing(f) == {w \in DOMAIN run : run[w].filename = f /\ run[w].calls \cap WriteCalls # {}}

\* C28 as stated: of two consumers processing jobs for one filename at most one
\* calls extraction, embedding and upsert, and the points stored for a filename
\* all come from one processing run (here: from one uploaded content).
C28_AsStated ==
    /\ \A w \in DOMAIN run : Cardinality(Writing(run[w].filename)) <= 1
    /\ \A p \in DOMAIN index, q \in DOMAIN index :
          index[p].source = index[q].source => index[p].text[1] = index[q].text[1]

-----------------------------------------------------------------------------
(* Text cleaner: cleaning.py                                               *)

\* the characters of s at the positions in keep, in order
KeepAt(s, keep) == [k \in 1..Cardinality(keep) |-> s[SortedSeq(keep)[k]]]

\* str.rstrip()
RStrip(s) ==
    LET keep == {i \in DOMAIN s : ~IsSpaceCh(s[i])}
    IN  IF keep = {} THEN <<>> ELSE SubSeq(s, 1, MaxOf(keep))

AllDigits(s) == s # <<>> /\ \A k \in DOMAIN s : IsDigitCh(s[k])

\* re.sub(r'\s+', ' ', s): each run of whitespace becomes one space
CollapseWhitespace(s) ==
    LET keep == {i \in DOMAIN s : ~IsSpaceCh(s[i]) \/ i = 1 \/ ~IsSpaceCh(s[i - 1])}
        kept == KeepAt(s, keep)
    IN  [k \in DOMAIN kept |-> IF IsSpaceCh(kept[k]) THEN " " ELSE kept[k]]

\* the members of the classes of cleaning.py that the input alphabet holds;
\* a sign outside ASCII is written as one character in brackets
CurrencySigns == {"$", ",", "(euro)"}
FootnoteSigns == {"*", "#", "(dagger)"}
SuperscriptDigits == {"(sup1)", "(sup2)"}
BulletSigns == {"(bullet)"}
PunctuationSigns == {",", ".", "!", "?", ";", ":"}

\* ^\d+(\.\d{1,2})?$
IsAmount(s) ==
    \/ AllDigits(s)
    \/ \E d \in DOMAIN s :
          /\ s[d] = "."
          /\ AllDigits(SubSeq(s, 1, d - 1))
          /\ AllDigits(SubSeq(s, d + 1, Len(s)))
          /\ Len(s) - d <= 2

\* ^\d+(\.\d+)?%$
IsPercent(s) ==
    /\ s # <<>> /\ s[Len(s)] = "%"
    /\ LET n == SubSeq(s, 1, Len(s) - 1)
       IN  \/ AllDigits(n)
           \/ \E d \in DOMAIN n :
                 /\ n[d] = "."
                 /\ AllDigits(SubSeq(n, 1, d - 1))
                 /\ AllDigits(SubSeq(n, d + 1, Len(n)))

_is_numeric_value(text) ==
    LET cleaned == SelectSeq(text, LAMBDA c : c \notin CurrencySigns /\ c # "," /\ c # " ")
    IN  IsAmount(cleaned) \/ IsPercent(cleaned)

_is_footnote_marker(text) ==
    LET t == Strip(text)
    IN  \/ Len(t) >= 3 /\ t[1] = "[" /\ t[Len(t)] = "]" /\ AllDigits(SubSeq(t, 2, Len(t) - 1))
        \/ Len(t) >= 3 /\ t[1] = "(" /\ t[Len(t)] = ")" /\ AllDigits(SubSeq(t, 2, Len(t) - 1))
        \/ AllDigits(t)
        \/ t # <<>> /\ \A k \in DOMAIN t : t[k] \in FootnoteSigns
        \/ t # <<>> /\ \A k \in DOMAIN t : t[k] \in SuperscriptDigits

\* re.search(r'[bullets]', line)
HasBullet(line) == \E k \in DOMAIN line : line[k] \in BulletSigns

\* re.search(r'^\s*[\d]+\.|\(\d+\)', line)
HasListNumber(line) ==
    \/ LET i == FirstNonSpace(line)
       IN  \E j \in DOMAIN line :
              i < j /\ line[j] = "." /\ \A k \in i..(j - 1) : IsDigitCh(line[k])
    \/ \E i \in DOMAIN line, j \in DOMAIN line :
          /\ i + 1 < j /\ line[i] = "(" /\ line[j] = ")"
          /\ \A k \in (i + 1)..(j - 1) : IsDigitCh(line[k])

_should_preserve_line(line, settings) ==
    \/ settings.PRESERVE_NUMERIC_VALUES /\ _is_numeric_value(line)
    \/ _is_footnote_marker(line)
    \/ HasBullet(line)
    \/ HasListNumber(line)

_clean_single_line(raw_line, settings) ==
    IF Strip(raw_line) = <<>> THEN <<>>
    ELSE LET line == CollapseWhitespace(Strip(raw_line))
         IN  IF _should_preserve_line(line, settings) THEN line
             ELSE IF /\ WordCount(line) < settings.MIN_TEXT_BLOCK_WORDS
                     /\ ~(_is_numeric_value(line) \/ _is_footnote_marker(line))
             THEN <<>>
             ELSE line

\* re.sub(r'\n{3,}', '\n\n', text): of a run of 3 or more newlines two are kept
CollapseNewlines(text) ==
    KeepAt(text, {i \in DOMAIN text :
                     ~(/\ i > 2 /\ text[i] = "\n" /\ text[i - 1] = "\n" /\ text[i - 2] = "\n")})

\* re.sub(r'\s+([,.!?;:])', r'\1', text): the whitespace that runs up to a
\* punctuation character goes
DropSpaceBeforePunctuation(text) ==
    KeepAt(text, {i \in DOMAIN text :
                     ~(/\ IsSpaceCh(text[i])
                       /\ \E j \in (i + 1)..Len(text) :
                             /\ text[j] \in PunctuationSigns
                             /\ \A k \in i..(j - 1) : IsSpaceCh(text[k]))})

\* re.sub(r'([,.!?;:])\s*', r'\1 ', text): the whitespace that follows a
\* punctuation character goes and one space is put after the character
OneSpaceAfterPunctuation(text) ==
    JoinWith([i \in DOMAIN text |->
                 IF text[i] \in PunctuationSigns THEN <<text[i], " ">>
                 ELSE IF /\ IsSpaceCh(text[i])
                         /\ \E j \in 1..(i - 1) :
                               /\ text[j] \in PunctuationSigns
                               /\ \A k \in (j + 1)..i : IsSpaceCh(text[k])
                 THEN <<>>
                 ELSE <<text[i]>>], <<>>)

_final_cleanup(text) ==
    IF text = <<>> THEN <<>>
    ELSE LET spaced == OneSpaceAfterPunctuation(
                           DropSpaceBeforePunctuation(CollapseNewlines(text)))
             lines == SplitLines(spaced)
         IN  Strip(JoinWith([k \in DOMAIN lines |-> RStrip(lines[k])], <<"\n">>))

\* cleaned_lines of clean_text
CleanedLines(text, settings) ==
    SelectSeq([k \in DOMAIN SplitLines(text) |-> _clean_single_line(SplitLines(text)[k], settings)],
              LAMBDA cleaned_line : cleaned_line # <<>>)

clean_text(text, settings) ==
    IF text = <<>> THEN <<>>
    ELSE _final_cleanup(JoinWith(CleanedLines(text, settings), <<"\n">>))

-----------------------------------------------------------------------------
(* The cleaner as a state machine over bounded texts                       *)

MaxLines == 2

\* the lines a raw text is made of: values, markers, list items, sentences
RawLines ==
    {<<"1", ",", "0", "0", "0", ".", "5", "0">>,
     <<"$", "5">>,
     <<"(euro)", " ", "2", "0">>,
     <<"5", "0", "%">>,
     <<"1", "2", ".", "5", "%">>,
     <<"[", "1", "]">>,
     <<"(", "2", ")">>,
     <<"7">>,
     <<"*">>,
     <<"(sup1)">>,
     <<"(bullet)", " ", "a">>,
     <<"1", ".", " ", "O", "n", "e">>,
     <<"s", "e", "e", " ", "(", "3", ")">>,
     <<"W", "a", "i", "t", ".", ".", ".", " ", "n", "o", " ", "w">>,
     <<"a", " ", ",", " ", "b", " ", "c">>,
     <<"F", "e", "e", ":", " ", " ", "t", "e", "n", " ", "x">>,
     <<"o", "k", "?", "!", " ", "g", "o", " ", "o", "n">>,
     <<"w", "o", "r", "d">>,
     <<" ", "t", "w", "o", "\t", " ", "w", "o", "r", "d", "s", " ">>,
     <<"e", "n", "d", " ", "i", "t", ".">>,
     <<".", " ", "s", "o", " ", "o", "n">>,
     <<" ">>,
     <<>>}

RECURSIVE LineSeqs(_)
LineSeqs(n) ==
    IF n = 0 THEN {<<>>}
    ELSE LineSeqs(n - 1) \cup {Append(ls, l) : ls \in LineSeqs(n - 1), l \in RawLines}

RawTexts == {JoinWith(ls, <<"\n">>) : ls \in LineSeqs(MaxLines) \ {<<>>}}

ClSettings == [MIN_TEXT_BLOCK_WORDS : {1, 3}, PRESERVE_NUMERIC_VALUES : BOOLEAN]

CleanParked ==
    /\ clIn = [text |-> <<>>, settings |-> [MIN_TEXT_BLOCK_WORDS |-> 3,
                                             PRESERVE_NUMERIC_VALUES |-> TRUE]]
    /\ clOut = [pc |-> "parked", result |-> <<>>, text |-> <<>>]

CleanInit ==
    /\ clIn \in [text : RawTexts, settings : ClSettings]
    /\ clOut = [pc |-> "lines", result |-> <<>>, text |-> <<>>]

\* the loop over the lines and the join
ClLines ==
    /\ clOut.pc = "lines"
    /\ clOut' = [pc |-> "final", text |-> <<>>,
                 result |-> JoinWith(CleanedLines(clIn.text, clIn.settings), <<"\n">>)]
    /\ UNCHANGED clIn

\* result = _final_cleanup(result); return result
ClFinal ==
    /\ clOut.pc = "final"
    /\ clOut' = [clOut EXCEPT !.pc = "done",
                              !.text = IF clIn.text = <<>> THEN <<>>
                                       ELSE _final_cleanup(clOut.result)]
    /\ UNCHANGED clIn

-----------------------------------------------------------------------------
(* Text cleaner: properties                                                *)

\* the line as the cleaner normalises it: stripped, whitespace runs single
Normalised(line) == CollapseWhitespace(Strip(line))

\* the preservation rules: numeric or currency value, percentage, footnote
\* marker, bullet, numbered-list marker
MatchesPreservationRule(line) ==
    \/ _is_numeric_value(line)
    \/ _is_footnote_marker(line)
    \/ HasBullet(line)
    \/ HasListNumber(line)

\* C22 as stated: every input line that matches a preservation rule is kept
\* by clean_text whatever its word count, and appears in the output with no
\* character inserted into it or removed from it.
C22_AsStated ==
    clOut.pc = "done" =>
        \A k \in DOMAIN SplitLines(clIn.text) :
            LET line == Normalised(SplitLines(clIn.text)[k])
            IN  (line # <<>> /\ MatchesPreservationRule(line)) => Contains(clOut.text, line)

\* C25 as stated: in the output of clean_text none of , . ! ? ; : comes
\* right after whitespace, each is followed by exactly one space or ends its
\* line, no line ends in whitespace, and the text neither starts nor ends
\* with whitespace.
C25_AsStated ==
    clOut.pc = "done" =>
        LET out == clOut.text
        IN  /\ \A i \in DOMAIN out :
                  out[i] \in PunctuationSigns =>
                      /\ i = 1 \/ ~IsSpaceCh(out[i - 1])
                      /\ \/ i = Len(out)
                         \/ out[i + 1] = "\n"
                         \/ out[i + 1] = " " /\ (i + 1 = Len(out) \/ ~IsSpaceCh(out[i + 2]))
            /\ \A k \in DOMAIN SplitLines(out) : SplitLines(out)[k] = RStrip(SplitLines(out)[k])
            /\ out = Strip(out)

-----------------------------------------------------------------------------
(* Column detection and reordering: LayoutAnalyzer in layout.py            *)

\* a cluster centre and a column edge are means of integer coordinates, kept
\* exact as the pair of a sum and a count
Mean(sum, n) == [sum |-> sum, n |-> n]
Whole(x) == Mean(x, 1)

\* a <= x and x <= b for an integer x and means a, b
MeanAtMost(a, x) == a.sum <= x * a.n
AtMostMean(x, b) == x * b.n <= b.sum

threshold == 50
line_threshold == 5
MinCharsForDetection == 10
MinClusterFloor == 5
NoiseDivisor == 20

\* a sequence of integers sorted ascending, equal elements kept
SortedInts(xs) ==
    LET keyed == SortedSeq({xs[k] * 100 + k : k \in DOMAIN xs})
    IN  [i \in DOMAIN keyed |-> keyed[i] \div 100]

\* the loop of _find_x_clusters from position i on: the clusters in order, each
\* with the mean of its members as centre
RECURSIVE ClusterLoop(_, _, _, _)
ClusterLoop(sorted_x, i, current, clusters) ==
    IF i > Len(sorted_x) THEN Append(clusters, current)
    ELSE LET x == sorted_x[i]
         IN  IF x * current.n - current.sum <= threshold * current.n
             THEN ClusterLoop(sorted_x, i + 1, Mean(current.sum + x, current.n + 1), clusters)
             ELSE ClusterLoop(sorted_x, i + 1, Mean(x, 1), Append(clusters, current))

\* the cluster centres that are kept, ascending
_find_x_clusters(x_positions) ==
    IF x_positions = <<>> THEN <<>>
    ELSE LET sorted_x == SortedInts(x_positions)
             quota == Len(x_positions) \div NoiseDivisor
             min_cluster_size == IF quota > MinClusterFloor THEN quota ELSE MinClusterFloor
         IN  SelectSeq(ClusterLoop(sorted_x, 2, Mean(sorted_x[1], 1), <<>>),
                       LAMBDA c : c.n >= min_cluster_size)

\* the column bounding boxes (x0, y0, x1, y1)
_detect_columns(page_chars) ==
    IF Len(page_chars) < MinCharsForDetection THEN <<>>
    ELSE LET clusters == _find_x_clusters([k \in DOMAIN page_chars |-> page_chars[k].x0])
             page_width == MaxOf({page_chars[k].x1 : k \in DOMAIN page_chars})
             page_height == MaxOf({page_chars[k].y1 : k \in DOMAIN page_chars})
         IN  IF Len(clusters) <= 1 THEN <<>>
             ELSE [i \in DOMAIN clusters |->
                     [x0 |-> clusters[i],
                      y0 |-> 0,
                      x1 |-> IF i < Len(clusters) THEN clusters[i + 1] ELSE Whole(page_width),
                      y1 |-> page_height]]

InBbox(char, bbox) ==
    /\ MeanAtMost(bbox.x0, char.x0) /\ AtMostMean(char.x0, bbox.x1)
    /\ bbox.y0 <= char.y0 /\ char.y0 <= bbox.y1

\* column_chars.sort(key=(y0, x0)): a stable sort
SortedByYX(chars) ==
    LET keyed == SortedSeq({(chars[k].y0 * 1000 + chars[k].x0) * 100 + k : k \in DOMAIN chars})
    IN  [i \in DOMAIN keyed |-> chars[keyed[i] % 100]]

\* the loop over column_chars from position i on: text_parts
RECURSIVE LineLoop(_, _, _, _, _)
LineLoop(chars, i, current_line, current_y, text_parts) ==
    IF i > Len(chars)
    THEN IF current_line # <<>> THEN Append(text_parts, current_line) ELSE text_parts
    ELSE LET char_y == chars[i].y0
             apart == IF char_y >= current_y THEN char_y - current_y ELSE current_y - char_y
         IN  IF apart <= line_threshold
             THEN LineLoop(chars, i + 1, Append(current_line, chars[i].text),
                           current_y, text_parts)
             ELSE LineLoop(chars, i + 1, <<chars[i].text>>, char_y,
                           IF current_line # <<>> THEN Append(text_parts, current_line)
                           ELSE text_parts)

_extract_text_from_bbox(page_chars, bbox) ==
    LET column_chars == SortedByYX(SelectSeq(page_chars, LAMBDA char : InBbox(char, bbox)))
    IN  IF column_chars = <<>> THEN <<>>
        ELSE JoinWith(LineLoop(column_chars, 2, <<column_chars[1].text>>,
                               column_chars[1].y0, <<>>), <<"\n">>)

-----------------------------------------------------------------------------
(* Column reordering as a state machine over bounded pages                 *)

MaxRows == 2

\* the characters' texts, one for each entry of page_chars
Symbols == Lowers \o Uppers

\* a block of text on the page: one character on each of 5 lines, 3 such
\* lines, or lines of 5 or 4 characters
BlockKinds == {"narrow", "few", "wide", "wide4"}

\* the (x0, y0) of a block's characters, lines 12 apart, characters 6 apart
BlockCells(kind, x, rows) ==
    LET across == CASE kind = "wide" -> 5 [] kind = "wide4" -> 4 [] OTHER -> 1
        down == CASE kind = "narrow" -> 5 [] kind = "few" -> 3 [] OTHER -> rows
    IN  [c \in 1..(across * down) |->
            [x0 |-> x + 6 * ((c - 1) % across), y0 |-> 12 * ((c - 1) \div across)]]

\* page.chars of a page laid out as blocks 100 apart
PageChars(kinds, rows) ==
    LET cells == JoinWith([b \in DOMAIN kinds |-> BlockCells(kinds[b], 100 * (b - 1), rows)], <<>>)
    IN  [k \in DOMAIN cells |->
            [text |-> Symbols[k], x0 |-> cells[k].x0, x1 |-> cells[k].x0 + 5,
             y0 |-> cells[k].y0, y1 |-> cells[k].y0 + 10]]

PageLayouts ==
    {<<a, b>> : a \in BlockKinds, b \in BlockKinds}
        \cup {<<a, b, c>> : a \in {"narrow", "wide"}, b \in BlockKinds, c \in {"narrow", "wide4"}}
        \cup {<<a>> : a \in BlockKinds}

\* page.extract_text(): the characters line by line across the page
PageText(page_chars) ==
    _extract_text_from_bbox(page_chars,
        [x0 |-> Whole(0), y0 |-> 0, x1 |-> Whole(1000), y1 |-> 1000])

ColSettings == [COLUMN_DETECTION_ENABLED : BOOLEAN, MAX_COLUMNS : {1, 2, 3}]

ColParked ==
    /\ colIn = [page_text |-> <<>>, page_chars |-> <<>>,
                settings |-> [COLUMN_DETECTION_ENABLED |-> FALSE, MAX_COLUMNS |-> 3]]
    /\ colOut = [pc |-> "parked", columns |-> <<>>, reordered_texts |-> <<>>,
                 rewritten |-> FALSE, text |-> <<>>]

ColInit ==
    /\ \E kinds \in PageLayouts, rows \in 1..MaxRows, settings \in ColSettings :
          colIn = [page_text |-> PageText(PageChars(kinds, rows)),
                   page_chars |-> PageChars(kinds, rows), settings |-> settings]
    /\ colOut = [pc |-> "detect", columns |-> <<>>, reordered_texts |-> <<>>,
                 rewritten |-> FALSE, text |-> <<>>]

\* detect_columns_and_reorder up to the loop: the early returns, the columns
ColDetect ==
    /\ colOut.pc = "detect"
    /\ \E columns \in {IF colIn.settings.COLUMN_DETECTION_ENABLED /\ colIn.page_chars # <<>>
                       THEN _detect_columns(colIn.page_chars) ELSE <<>>} :
          colOut' = IF Len(columns) <= 1
                    THEN [colOut EXCEPT !.pc = "done", !.text = colIn.page_text]
                    ELSE [colOut EXCEPT !.pc = "extract",
                                        !.columns = FirstN(columns, colIn.settings.MAX_COLUMNS)]
    /\ UNCHANGED colIn

\* one turn of the loop over columns
ColExtract ==
    /\ colOut.pc = "extract"
    /\ colOut.columns # <<>>
    /\ \E column_text \in {_extract_text_from_bbox(colIn.page_chars, Head(colOut.columns))} :
          colOut' = [colOut EXCEPT !.columns = Tail(@),
                                   !.reordered_texts = IF Strip(column_text) # <<>>
                                                       THEN Append(@, column_text) ELSE @]
    /\ UNCHANGED colIn

\* return '\n\n'.join(reordered_texts)
ColJoin ==
    /\ colOut.pc = "extract"
    /\ colOut.columns = <<>>
    /\ colOut' = [colOut EXCEPT !.pc = "done", !.rewritten = TRUE,
                                !.text = JoinWith(colOut.reordered_texts, <<"\n", "\n">>)]
    /\ UNCHANGED colIn

-----------------------------------------------------------------------------
(* Column reordering: properties                                           *)

Occurrences(text, c) == Cardinality({i \in DOMAIN text : text[i] = c})

\* C30 as stated: when 2 or more columns were detected and the page was
\* rewritten, every entry of page_chars appears exactly once in the text
\* returned.
C30_AsStated ==
    (colOut.pc = "done" /\ colOut.rewritten) =>
        \A k \in DOMAIN colIn.page_chars :
            Occurrences(colOut.text, colIn.page_chars[k].text) = 1

-----------------------------------------------------------------------------
(* Specifications                                                          *)

OtherParked == UpdParked /\ CleanParked /\ ColParked

Init == PipeInit /\ ChunkParked /\ HFParked /\ RqParked /\ AskParked /\ ExParked /\ IdxParked /\ OtherParked

Next ==
    \/ Upload /\ UNCHANGED <<chunkVars, hfVars, rqVars, askVars, exVars, idxVars, updVars, cleanVars, colVars>>
    \/ \E w \in Workers :
         /\ \/ Receive(w) \/ InitCollection(w) \/ CheckIndexed(w) \/ Extract(w)
            \/ Clean(w) \/ Chunk(w) \/ Embed(w) \/ Upsert(w)
         /\ UNCHANGED <<chunkVars, hfVars, rqVars, askVars, exVars, idxVars, updVars, cleanVars, colVars>>

Spec == Init /\ [][Next]_vars

InitChunk == PipeInit /\ ChunkInit /\ HFParked /\ RqParked /\ AskParked /\ ExParked /\ IdxParked /\ OtherParked

NextChunk ==
    /\ CkSplit \/ CkFilter \/ CkCreate \/ CkQuality \/ CkRechunk
    /\ UNCHANGED <<pipeVars, hfVars, rqVars, askVars, exVars, idxVars, updVars, cleanVars, colVars>>

SpecChunk == InitChunk /\ [][NextChunk]_vars

InitHF == PipeInit /\ ChunkParked /\ HFInit /\ RqParked /\ AskParked /\ ExParked /\ IdxParked /\ OtherParked

NextHF ==
    /\ HfFilter \/ HfExtract
    /\ UNCHANGED <<pipeVars, chunkVars, rqVars, askVars, exVars, idxVars, updVars, cleanVars, colVars>>

SpecHF == InitHF /\ [][NextHF]_vars

InitRefine == PipeInit /\ ChunkParked /\ HFParked /\ RqInit /\ AskParked /\ ExParked /\ IdxParked /\ OtherParked

NextRefine == RqRefine /\ UNCHANGED <<pipeVars, chunkVars, hfVars, askVars, exVars, idxVars, updVars, cleanVars, colVars>>

SpecRefine == InitRefine /\ [][NextRefine]_vars

InitAsk == PipeInit /\ ChunkParked /\ HFParked /\ RqParked /\ AskInit /\ ExParked /\ IdxParked /\ OtherParked

NextAsk ==
    /\ AskRefine \/ AskEmbed \/ AskRetrieve \/ AskAugment \/ AskAnswer
    /\ UNCHANGED <<pipeVars, chunkVars, hfVars, rqVars, exVars, idxVars, updVars, cleanVars, colVars>>

SpecAsk == InitAsk /\ [][NextAsk]_vars

InitExtract == PipeInit /\ ChunkParked /\ HFInit /\ RqParked /\ AskParked /\ ExInit /\ IdxParked /\ OtherParked

NextExtract ==
    /\ ExPage \/ ExFinish
    /\ UNCHANGED <<pipeVars, chunkVars, rqVars, askVars, idxVars, updVars, cleanVars, colVars>>

SpecExtract == InitExtract /\ [][NextExtract]_vars

InitIndex == Init

NextIndex == IdxUpsert /\ UNCHANGED <<chunkVars, hfVars, rqVars, askVars, exVars, updVars, cleanVars, colVars>>

SpecIndex == InitIndex /\ [][NextIndex]_vars

\* the write path with the consumer's steps weakly fair: a consumer that can
\* take its next step takes it (start_consuming runs callback for every message)
ConsumerStep(w) ==
    \/ Receive(w) \/ InitCollection(w) \/ CheckIndexed(w) \/ Extract(w)
    \/ Clean(w) \/ Chunk(w) \/ Embed(w) \/ Upsert(w)

ConsumerRuns(w) ==
    /\ ConsumerStep(w)
    /\ UNCHANGED <<chunkVars, hfVars, rqVars, askVars, exVars, idxVars, updVars, cleanVars, colVars>>

SpecLive == Init /\ [][Next]_vars /\ \A w \in Workers : WF_vars(ConsumerRuns(w))

InitTwo ==
    /\ jobs = << >> /\ queue = << >> /\ files = << >> /\ index = << >> /\ nextJob = 0
    /\ lastUpload = [status |-> 0, job_id |-> 0]
    /\ run = [w \in TwoWorkers |-> IdleRun]
    /\ ChunkParked /\ HFParked /\ RqParked /\ AskParked /\ ExParked /\ IdxParked /\ OtherParked

NextTwo ==
    \/ Upload /\ UNCHANGED <<chunkVars, hfVars, rqVars, askVars, exVars, idxVars, updVars, cleanVars, colVars>>
    \/ \E w \in TwoWorkers : ConsumerRuns(w)

SpecTwo == InitTwo /\ [][NextTwo]_vars

InitJobs ==
    /\ UpdInit /\ ChunkParked /\ HFParked /\ RqParked /\ AskParked /\ ExParked /\ IdxParked
    /\ CleanParked /\ ColParked

NextJobs ==
    /\ \E c \in Callers : UpdGet(c) \/ UpdSet(c)
    /\ UNCHANGED <<queue, files, index, nextJob, lastUpload, run,
                   chunkVars, hfVars, rqVars, askVars, exVars, idxVars, cleanVars, colVars>>

SpecJobs == InitJobs /\ [][NextJobs]_vars

InitClean ==
    /\ PipeInit /\ ChunkParked /\ HFParked /\ RqParked /\ AskParked /\ ExParked /\ IdxParked
    /\ UpdParked /\ CleanInit /\ ColParked

NextClean ==
    /\ ClLines \/ ClFinal
    /\ UNCHANGED <<pipeVars, chunkVars, hfVars, rqVars, askVars, exVars, idxVars, updVars, colVars>>

SpecClean == InitClean /\ [][NextClean]_vars

InitColumns ==
    /\ PipeInit /\ ChunkParked /\ HFParked /\ RqParked /\ AskParked /\ ExParked /\ IdxParked
    /\ UpdParked /\ CleanParked /\ ColInit

NextColumns ==
    /\ ColDetect \/ ColExtract \/ ColJoin
    /\ UNCHANGED <<pipeVars, chunkVars, hfVars, rqVars, askVars, exVars, idxVars, updVars, cleanVars>>

SpecColumns == InitColumns /\ [][NextColumns]_vars

====
